---- MODULE Spec2Model ----
(***************************************************************************)
(* Verification model of sat_revsynth: the ECA57 template store            *)
(* (database/basis.py, database/lmdb_env.py, database/templates.py,        *)
(* database/unroll.py), the witness store (database/witnesses.py), the SAT *)
(* identity encoder and its enumeration loops (sat/cnf.py,                 *)
(* synthesizers/eca57_synthesizer.py, eca57_dimgroup_synthesizer.py), the  *)
(* solver race (sat/solver_racer.py), the external solver                 *)
(* (sat/solver.py), the staggered exploration driver                       *)
(* (scripts/explore_staggered.py), the unroll command (eca57_cli.py) and   *)
(* the merge of job stores (cluster/merge_jobs.py).                        *)
(*                                                                         *)
(* A wire is a natural number, a gate the triple <<target, ctrl1, ctrl2>>, *)
(* a gate list a sequence of gates.  Python's Optional[x] is the sequence  *)
(* <<>> (None) or <<x>>.  A BLAKE3 digest is represented by the message    *)
(* that was hashed (the digest is collision free on the messages of the    *)
(* model), a packed byte string by the sequence of its fields.             *)
(***************************************************************************)
EXTENDS Integers, Sequences, FiniteSets, TLC

(***************************************************************************)
(* Bounds of the model.                                                    *)
(***************************************************************************)
MaxWidth == 4
MaxGates == 2
MaxGateKinds == 2
LongSeedGates == 3
MaxCalls == 3
MaxPermutations == 3
MaxSynthWidth == 3
MaxSynthGates == 2
MaxExclusions == 2
MaxUnrollWidth == 6
MaxUnrollGates == 4
MaxLiterals == 5
MaxWitnessTemplates == 2
MaxWitnessGates == 4
MaxBuilds == 2
MaxSolvers == 3
MaxJobs == 2
MaxNodes == 3
MaxChunks == 2
MaxBanner == 2
MaxSeeds == 2
MaxEarlier == 254

(***************************************************************************)
(* Sizes of the solver exchange, in bytes. A pipe of the kernel is a ring   *)
(* of PipeSlots buffers of one page each; the buffer of p.stdin has the    *)
(* block size of its pipe; p.stdout.read() starts with a request of        *)
(* SMALLCHUNK bytes. The clause is "1 0\n"; the result the backend prints, *)
(* a short banner string and a short read of the backend are choices of    *)
(* the backend.                                                            *)
(***************************************************************************)
PageSize == 4096
PipeSlots == 16
BufferSize == 4096
SMALLCHUNK == 8192
ClauseBytes == 4
ResultBytes == 16
BannerBytes == 12
ReadBytes == 4096

\* The most bytes a pipe holds.
PipeCapacity == PipeSlots * PageSize

\* A banner string is short, or fills a pipe.
BannerSizes == {BannerBytes, PipeCapacity}

\* A read of the backend asks for a block, or for all a pipe holds.
ReadSizes == {ReadBytes, PipeCapacity}

(***************************************************************************)
(* Program constants.                                                      *)
(***************************************************************************)
MinWidth == 3
BASIS_ECA57 == 1
SCHEMA_VERSION == 1
CANONICALIZATION_VERSION == 1
OriginKind_SAT == 1
OriginKind_UNROLL == 2
UNROLL_MIRROR == 1
UNROLL_PERMUTE == 2
UNROLL_ROTATE == 4
UNROLL_SWAP == 8

None == <<>>
Some(x) == <<x>>

Widths == MinWidth..MaxWidth

(***************************************************************************)
(* gates/eca57.py                                                          *)
(***************************************************************************)
\* ECA57Gate.__post_init__: the three wires of a gate are pairwise distinct.
ECA57Gate_valid(gate) ==
    /\ gate[1] # gate[2]
    /\ gate[1] # gate[3]
    /\ gate[2] # gate[3]

\* all_eca57_gates(width), as the set of the gates it lists.
all_eca57_gates(width) ==
    {g \in (0..(width - 1)) \X (0..(width - 1)) \X (0..(width - 1)) :
        ECA57Gate_valid(g)}

\* The position of a gate in the list all_eca57_gates(width) builds
\* (target, then ctrl1, then ctrl2, ascending), counted from 1.
GateRank(width, g) ==
    Cardinality({h \in all_eca57_gates(width) :
        \/ h[1] < g[1]
        \/ h[1] = g[1] /\ h[2] < g[2]
        \/ h[1] = g[1] /\ h[2] = g[2] /\ h[3] <= g[3]})

\* ECA57Gate.apply: target ^= (ctrl1 OR NOT ctrl2) on a state indexed by wire.
ECA57Gate_apply(gate, state) ==
    LET c1 == state[gate[2]]
        c2 == state[gate[3]]
        condition == IF c1 = 1 \/ c2 = 0 THEN 1 ELSE 0
    IN  [state EXCEPT ![gate[1]] = (@ + condition) % 2]

RECURSIVE ECA57Circuit_apply(_, _)
ECA57Circuit_apply(gates, state) ==
    IF gates = <<>> THEN state
    ELSE ECA57Circuit_apply(Tail(gates), ECA57Gate_apply(Head(gates), state))

\* ECA57Circuit.is_identity over all 2^width input states.
ECA57Circuit_is_identity(gates, width) ==
    \A state \in [0..(width - 1) -> {0, 1}] :
        ECA57Circuit_apply(gates, state) = state

(***************************************************************************)
(* database/basis.py                                                       *)
(***************************************************************************)
touched_wires(gate) == <<gate[1], gate[2], gate[3]>>

\* A test that lets every pair of gates be swapped.
commutes_always(g1, g2) == TRUE

\* ECA57Basis.commutes: the gates touch disjoint sets of wires.
commutes(g1, g2) ==
    {g1[1], g1[2], g1[3]} \cap {g2[1], g2[2], g2[3]} = {}

\* serialize_gate / encode_gates_eca57: three bytes per gate, in order.
encode_gates_eca57(gates) ==
    [i \in 1..(3 * Len(gates)) |-> gates[((i - 1) \div 3) + 1][((i - 1) % 3) + 1]]

decode_gates_eca57(data) ==
    [i \in 1..(Len(data) \div 3) |->
        <<data[3 * i - 2], data[3 * i - 1], data[3 * i]>>]

\* The digest of a message; equal messages and only those give equal digests.
blake3_digest(message) == [blake3 |-> message]

\* The loop of canonicalize over the wires from position i on, seen being
\* the wires met before: seen followed by the wires of wires[i..] that are
\* not in seen, each at its first position.
FirstOccurrence(wires, i, seen) ==
    LET fresh == {j \in i..Len(wires) :
                     /\ \A k \in 1..Len(seen) : seen[k] # wires[j]
                     /\ \A k \in i..(j - 1) : wires[k] # wires[j]}
    IN  seen \o [n \in 1..Cardinality(fresh) |->
                    wires[CHOOSE j \in fresh :
                              Cardinality({k \in fresh : k < j}) = n - 1]]

\* A relabelling that keeps every wire's own number.
wire_map_unchanged(order) ==
    [w \in {order[j] : j \in 1..Len(order)} |-> w]

\* wire_map of canonicalize, from the wires in order of first occurrence.
wire_map_of(order) ==
    [w \in {order[j] : j \in 1..Len(order)} |->
        (CHOOSE j \in 1..Len(order) : order[j] = w) - 1]

\* The loop of canonicalize that builds wire_map; the wires and their order
\* are bound to their values before the map is built from them.
wire_map(gates) ==
    CHOOSE wm \in {wire_map_of(order) :
                      order \in {FirstOccurrence(wires, 1, <<>>) :
                                    wires \in {encode_gates_eca57(gates)}}} :
        TRUE

\* The relabelled gates of canonicalize.
relabel(gates, wm) ==
    [i \in 1..Len(gates) |->
        <<wm[gates[i][1]], wm[gates[i][2]], wm[gates[i][3]]>>]

\* The result of canonicalize: the canonical gates with the digest of
\* "eca57:<width>:<len>:" followed by their serialization.
canonical_result(canonical_gates, width) ==
    [gates |-> canonical_gates,
     hash |-> blake3_digest(<<"eca57", width, Len(canonical_gates)>>
                             \o encode_gates_eca57(canonical_gates))]

\* canonicalize with the digest taken of the gates as given, before the
\* relabelling.
canonicalize_hash_as_given(gates, width) ==
    IF gates = <<>>
    THEN [gates |-> <<>>, hash |-> blake3_digest(<<"eca57", 0>>)]
    ELSE [gates |-> relabel(gates, wire_map(gates)),
          hash |-> canonical_result(gates, width).hash]

\* ECA57Basis.canonicalize
canonicalize(gates, width) ==
    IF gates = <<>>
    THEN [gates |-> <<>>, hash |-> blake3_digest(<<"eca57", 0>>)]
    ELSE CHOOSE c \in {canonical_result(canonical_gates, width) :
                          canonical_gates \in {relabel(gates, wm) :
                                                  wm \in {wire_map(gates)}}} :
             TRUE

canonical_hash_256(gates, width) == canonicalize(gates, width).hash

(***************************************************************************)
(* database/lmdb_env.py: the environment is a record of named databases,   *)
(* each an ordered map from packed keys to packed values.                  *)
(***************************************************************************)
EmptyDB == [k \in {} |-> k]

\* TemplateDBEnv.__init__ on a new directory, with _init_meta.
TemplateDBEnv_new ==
    [meta |-> [schema_version |-> SCHEMA_VERSION,
               canonicalization_version |-> CANONICALIZATION_VERSION,
               basis |-> "eca57",
               template_count |-> 0,
               witness_count |-> 0],
     templates_by_hash |-> EmptyDB,
     template_families |-> EmptyDB,
     templates_by_dims |-> EmptyDB,
     witnesses_by_hash |-> EmptyDB,
     witness_prefilter |-> EmptyDB]

get_template_count(e) == e.meta.template_count

\* increment_template_count without the write of the new count.
increment_template_count_unsaved(e) ==
    [env |-> e, ret |-> get_template_count(e) + 1]

increment_template_count(e) ==
    LET new_count == get_template_count(e) + 1
    IN  [env |-> [e EXCEPT !.meta.template_count = new_count],
         ret |-> new_count]

\* make_template_key without the width.
make_template_key_no_width(basis_id, width, gate_count, hash) ==
    <<basis_id, 0, gate_count, hash>>

make_template_key(basis_id, width, gate_count, hash) ==
    <<basis_id, width, gate_count, hash>>

get_template(e, basis_id, width, gate_count, hash) ==
    LET key == make_template_key(basis_id, width, gate_count, hash)
    IN  IF key \in DOMAIN e.templates_by_hash
        THEN Some(e.templates_by_hash[key]) ELSE None

put_template(e, basis_id, width, gate_count, hash, record) ==
    LET key == make_template_key(basis_id, width, gate_count, hash)
    IN  IF key \in DOMAIN e.templates_by_hash
        THEN e
        ELSE [e EXCEPT !.templates_by_hash = (key :> record) @@ @]

\* make_dims_key without the template_id.
make_dims_key_no_id(basis_id, width, gate_count, template_id) ==
    <<basis_id, width, gate_count, 0>>

make_dims_key(basis_id, width, gate_count, template_id) ==
    <<basis_id, width, gate_count, template_id>>

put_template_dims_index(e, basis_id, width, gate_count, template_id, hash) ==
    LET key == make_dims_key(basis_id, width, gate_count, template_id)
    IN  [e EXCEPT !.templates_by_dims = (key :> hash) @@ @]

\* The (template_id, canonical_hash) pairs of the keys that start with the
\* prefix (basis_id, width, gate_count).
iter_templates_by_dims(e, basis_id, width, gate_count) ==
    {<<key[4], e.templates_by_dims[key]>> :
        key \in {k \in DOMAIN e.templates_by_dims :
                    <<k[1], k[2], k[3]>> = <<basis_id, width, gate_count>>}}

make_family_key(basis_id, family_hash) == <<basis_id, family_hash>>

\* add_to_family that overwrites the list instead of appending to it.
add_to_family_overwrite(e, basis_id, family_hash, template_id) ==
    [e EXCEPT !.template_families =
        (make_family_key(basis_id, family_hash) :> <<template_id>>) @@ @]

add_to_family(e, basis_id, family_hash, template_id) ==
    LET key == make_family_key(basis_id, family_hash)
        new_value == IF key \in DOMAIN e.template_families
                        /\ e.template_families[key] # <<>>
                     THEN Append(e.template_families[key], template_id)
                     ELSE <<template_id>>
    IN  [e EXCEPT !.template_families = (key :> new_value) @@ @]

get_family_members(e, basis_id, family_hash) ==
    LET key == make_family_key(basis_id, family_hash)
    IN  IF key \in DOMAIN e.template_families
        THEN e.template_families[key] ELSE <<>>

increment_witness_count(e) ==
    LET new_count == e.meta.witness_count + 1
    IN  [env |-> [e EXCEPT !.meta.witness_count = new_count],
         ret |-> new_count]

make_witness_key(basis_id, width, witness_len, witness_hash) ==
    <<basis_id, width, witness_len, witness_hash>>

get_witness(e, basis_id, width, witness_len, witness_hash) ==
    LET key == make_witness_key(basis_id, width, witness_len, witness_hash)
    IN  IF key \in DOMAIN e.witnesses_by_hash
        THEN Some(e.witnesses_by_hash[key]) ELSE None

put_witness(e, basis_id, width, witness_len, witness_hash, record) ==
    LET key == make_witness_key(basis_id, width, witness_len, witness_hash)
    IN  IF key \in DOMAIN e.witnesses_by_hash
        THEN e
        ELSE [e EXCEPT !.witnesses_by_hash = (key :> record) @@ @]

make_prefilter_key(basis_id, width, token_hash) ==
    <<basis_id, width, token_hash>>

add_to_prefilter(e, basis_id, width, token_hash, witness_id) ==
    LET key == make_prefilter_key(basis_id, width, token_hash)
        new_value == IF key \in DOMAIN e.witness_prefilter
                        /\ e.witness_prefilter[key] # <<>>
                     THEN Append(e.witness_prefilter[key], witness_id)
                     ELSE <<witness_id>>
    IN  [e EXCEPT !.witness_prefilter = (key :> new_value) @@ @]

lookup_prefilter(e, basis_id, width, token_hash) ==
    LET key == make_prefilter_key(basis_id, width, token_hash)
    IN  IF key \in DOMAIN e.witness_prefilter
        THEN e.witness_prefilter[key] ELSE <<>>

(***************************************************************************)
(* database/templates.py                                                   *)
(***************************************************************************)
\* to_bytes that writes the record's own id as its origin.
TemplateRecord_to_bytes_own_id(record) ==
    [template_id |-> record.template_id,
     basis_id |-> record.basis_id,
     width |-> record.width,
     gate_count |-> record.gate_count,
     canonical_hash |-> record.canonical_hash,
     family_hash |-> record.family_hash,
     origin |-> record.origin,
     origin_tid |-> record.template_id,
     unroll_ops |-> record.unroll_ops,
     gates_len |-> Len(record.gates_encoded),
     gates_encoded |-> record.gates_encoded]

\* TemplateRecord.to_bytes: the packed fields; None is written as 0.
TemplateRecord_to_bytes(record) ==
    [template_id |-> record.template_id,
     basis_id |-> record.basis_id,
     width |-> record.width,
     gate_count |-> record.gate_count,
     canonical_hash |-> record.canonical_hash,
     family_hash |-> record.family_hash,
     origin |-> record.origin,
     origin_tid |-> IF record.origin_template_id = None
                    THEN 0 ELSE record.origin_template_id[1],
     unroll_ops |-> record.unroll_ops,
     gates_len |-> Len(record.gates_encoded),
     gates_encoded |-> record.gates_encoded]

\* TemplateRecord.from_bytes: 0 is read back as None.
TemplateRecord_from_bytes(data) ==
    [template_id |-> data.template_id,
     basis_id |-> data.basis_id,
     width |-> data.width,
     gate_count |-> data.gate_count,
     canonical_hash |-> data.canonical_hash,
     family_hash |-> data.family_hash,
     origin |-> data.origin,
     origin_template_id |-> IF data.origin_tid # 0
                            THEN Some(data.origin_tid) ELSE None,
     unroll_ops |-> data.unroll_ops,
     gates_encoded |-> SubSeq(data.gates_encoded, 1, data.gates_len)]

\* insert_template when the key is absent: the record with the id allocated
\* by inc = increment_template_count(e), written to the three databases.
insert_new(inc, c, gate_count, width, origin, origin_template_id, unroll_ops, fh) ==
    LET record == [template_id |-> inc.ret,
                   basis_id |-> BASIS_ECA57,
                   width |-> width,
                   gate_count |-> gate_count,
                   canonical_hash |-> c.hash,
                   family_hash |-> fh,
                   origin |-> origin,
                   origin_template_id |-> origin_template_id,
                   unroll_ops |-> unroll_ops,
                   gates_encoded |-> encode_gates_eca57(c.gates)]
    IN  [env |-> add_to_family(
                     put_template_dims_index(
                         put_template(inc.env, BASIS_ECA57, width, gate_count,
                                      c.hash, TemplateRecord_to_bytes(record)),
                         BASIS_ECA57, width, gate_count, inc.ret, c.hash),
                     BASIS_ECA57, fh, inc.ret),
         ret |-> Some(record)]

\* insert_template without the duplicate check.
insert_canonical_no_check(e, c, gate_count, width, origin, origin_template_id, unroll_ops, family_hash) ==
    insert_new(increment_template_count(e), c, gate_count, width, origin,
               origin_template_id, unroll_ops,
               IF family_hash = None THEN c.hash ELSE family_hash[1])

\* insert_template after canonicalization, c = canonicalize(gates, width).
insert_canonical(e, c, gate_count, width, origin, origin_template_id, unroll_ops, family_hash) ==
    IF get_template(e, BASIS_ECA57, width, gate_count, c.hash) # None
    THEN [env |-> e, ret |-> None]
    ELSE insert_new(increment_template_count(e), c, gate_count, width, origin,
                    origin_template_id, unroll_ops,
                    IF family_hash = None THEN c.hash ELSE family_hash[1])

\* TemplateStore.insert_template: the environment after the write
\* transaction and the returned record (None for a duplicate).
insert_template(e, gates, width, origin, origin_template_id, unroll_ops, family_hash) ==
    insert_canonical(e, canonicalize(gates, width), Len(gates), width, origin,
                     origin_template_id, unroll_ops, family_hash)

get_by_hash(e, width, gate_count, hash) ==
    LET data == get_template(e, BASIS_ECA57, width, gate_count, hash)
    IN  IF data = None THEN None ELSE Some(TemplateRecord_from_bytes(data[1]))

\* TemplateStore.iter_by_dims, as the bag of the records it yields: the
\* number of times each record is yielded.
iter_by_dims(e, width, gate_count) ==
    LET entries == iter_templates_by_dims(e, BASIS_ECA57, width, gate_count)
        found == {en \in entries :
                    get_template(e, BASIS_ECA57, width, gate_count, en[2]) # None}
        rec(en) == TemplateRecord_from_bytes(
                      get_template(e, BASIS_ECA57, width, gate_count, en[2])[1])
    IN  [r \in {rec(en) : en \in found} |->
            Cardinality({en \in found : rec(en) = r})]

(***************************************************************************)
(* database/unroll.py                                                      *)
(***************************************************************************)
\* The concatenation of seqs[lo..hi], in order (the range is walked by
\* halves), and of a whole sequence of sequences.
RECURSIVE FlatRange(_, _, _)
FlatRange(seqs, lo, hi) ==
    IF lo > hi THEN <<>>
    ELSE IF lo = hi THEN seqs[lo]
    ELSE LET mid == (lo + hi) \div 2
         IN  FlatRange(seqs, lo, mid) \o FlatRange(seqs, mid + 1, hi)

Flat(seqs) == FlatRange(seqs, 1, Len(seqs))

SetMin(S) == CHOOSE x \in S : \A y \in S : x <= y

RECURSIVE SetToSortedSeq(_)
SetToSortedSeq(S) ==
    IF S = {} THEN <<>> ELSE <<SetMin(S)>> \o SetToSortedSeq(S \ {SetMin(S)})

\* a | b on the flag bitfields.
RECURSIVE BitOr(_, _)
BitOr(a, b) ==
    IF a = 0 THEN b
    ELSE IF b = 0 THEN a
    ELSE 2 * BitOr(a \div 2, b \div 2)
         + (IF a % 2 = 1 \/ b % 2 = 1 THEN 1 ELSE 0)

\* itertools.permutations of a set of wires, in lexicographic order; a
\* permutation is the sequence perm with perm[old + 1] = new.
RECURSIVE permutations(_)
prepend_all(x, sub) == [k \in 1..Len(sub) |-> <<x>> \o sub[k]]

permutations_from(S, xs) ==
    Flat([i \in 1..Len(xs) |-> prepend_all(xs[i], permutations(S \ {xs[i]}))])

permutations(S) ==
    IF S = {} THEN << <<>> >> ELSE permutations_from(S, SetToSortedSeq(S))

\* mirror: reversed order; ECA57Basis.invert returns the gate itself.
mirror(gates) == [i \in 1..Len(gates) |-> gates[Len(gates) + 1 - i]]

\* A relabelling of the target wires only.
permute_lines_targets(gates, perm) ==
    [i \in 1..Len(gates) |->
        <<perm[gates[i][1] + 1], gates[i][2], gates[i][3]>>]

permute_lines(gates, perm) ==
    [i \in 1..Len(gates) |->
        <<perm[gates[i][1] + 1], perm[gates[i][2] + 1], perm[gates[i][3] + 1]>>]

rotate(gates, r) ==
    IF gates = <<>> \/ r = 0 THEN gates
    ELSE LET rr == r % Len(gates)
         IN  SubSeq(gates, rr + 1, Len(gates)) \o SubSeq(gates, 1, rr)

\* The indices i (from 0) with gates[i], gates[i + 1] commuting, ascending.
adjacent_commuting_pairs(gates) ==
    SetToSortedSeq({i \in 0..(Len(gates) - 2) :
                        commutes(gates[i + 1], gates[i + 2])})

swap_at(gates, idx) ==
    [gates EXCEPT ![idx + 1] = gates[idx + 2], ![idx + 2] = gates[idx + 1]]

\* A swap of the inner loop that is never put into the queue.
gate_swap_visit_never(swapped, swap_hash, vq) == vq

\* One swap of the inner loop of gate_swap_dfs: vq holds the visited hashes
\* and the queue.
gate_swap_visit(swapped, swap_hash, vq) ==
    IF swap_hash \notin vq.visited
    THEN [visited |-> vq.visited \cup {swap_hash},
          queue |-> Append(vq.queue, swapped)]
    ELSE vq

\* The inner loop of gate_swap_dfs over the commuting pairs idxs of current.
RECURSIVE gate_swap_neighbours(_, _, _, _)
gate_swap_neighbours(current, idxs, width, vq) ==
    IF idxs = <<>> THEN vq
    ELSE gate_swap_neighbours(current, Tail(idxs), width,
             gate_swap_visit(swap_at(current, Head(idxs)),
                 canonicalize(swap_at(current, Head(idxs)), width).hash, vq))

\* The while loop of gate_swap_dfs; yielded is the sequence of lists yielded.
RECURSIVE gate_swap_loop(_, _, _, _, _)
gate_swap_loop(vq, node_count, width, max_nodes, yielded) ==
    IF vq.queue = <<>> \/ ~(node_count < max_nodes) THEN yielded
    ELSE gate_swap_loop(
             gate_swap_neighbours(Head(vq.queue),
                 adjacent_commuting_pairs(Head(vq.queue)), width,
                 [visited |-> vq.visited, queue |-> Tail(vq.queue)]),
             node_count + 1, width, max_nodes,
             Append(yielded, Head(vq.queue)))

gate_swap_dfs(gates, width, max_nodes) ==
    gate_swap_loop([visited |-> {canonicalize(gates, width).hash},
                    queue |-> <<gates>>],
                   0, width, max_nodes, <<>>)

\* UnrollConfig() with its defaults.
UnrollConfig_default ==
    [do_mirror |-> TRUE, do_permute |-> TRUE, do_rotate |-> TRUE,
     do_swap_dfs |-> TRUE, swap_dfs_budget |-> 1000, max_permutations |-> 24]

\* unroll_template: the original, its mirror and the rotations r with their
\* mirrors.
rotation_variants(rotated, config) ==
    << <<rotated, UNROLL_ROTATE>> >>
    \o (IF config.do_mirror
        THEN << <<mirror(rotated), BitOr(UNROLL_ROTATE, UNROLL_MIRROR)>> >>
        ELSE <<>>)

base_variants(gates, config) ==
    << <<gates, 0>> >>
    \o (IF config.do_mirror
        THEN << <<mirror(gates), UNROLL_MIRROR>> >> ELSE <<>>)
    \o (IF config.do_rotate /\ Len(gates) > 1
        THEN Flat([r \in 1..(Len(gates) - 1) |->
                      rotation_variants(rotate(gates, r), config)])
        ELSE <<>>)

\* unroll_template: the first max_permutations permutations of the wires.
limit_permutations(perms, max_permutations) ==
    IF Len(perms) > max_permutations
    THEN SubSeq(perms, 1, max_permutations) ELSE perms

\* unroll_template: every base variant under every permutation but the
\* identity.
skip_identity(perms, width) ==
    SelectSeq(perms, LAMBDA perm : perm # [w \in 1..width |-> w - 1])

permute_variants(base, kept) ==
    Flat([i \in 1..Len(base) |->
             [k \in 1..Len(kept) |->
                 <<permute_lines(base[i][1], kept[k]),
                   BitOr(base[i][2], UNROLL_PERMUTE)>>]])

all_variants(base, width, config) ==
    base \o (IF config.do_permute
             THEN permute_variants(base,
                      skip_identity(
                          limit_permutations(permutations(0..(width - 1)),
                                             config.max_permutations),
                          width))
             ELSE <<>>)

\* unroll_template: the lists gate_swap_dfs yields for a variant.
swapped_variants(lists, ops) ==
    [k \in 1..Len(lists) |-> <<lists[k], BitOr(ops, UNROLL_SWAP)>>]

swap_variants(variants, width, config) ==
    IF config.do_swap_dfs
    THEN Flat([i \in 1..Len(variants) |->
                  swapped_variants(
                      gate_swap_dfs(variants[i][1], width,
                                    config.swap_dfs_budget),
                      variants[i][2])])
    ELSE variants

\* unroll_template: the sequence of the <<variant, unroll_ops>> it yields.
unroll_template(gates, width, config) ==
    swap_variants(all_variants(base_variants(gates, config), width, config),
                  width, config)

\* The call of insert_template in the for loop of unroll_and_insert, for
\* the pair variant = <<variant_gates, unroll_ops>>: one write transaction.
unroll_insert_variant(e, source_record, variant, width) ==
    insert_template(e, variant[1], width, OriginKind_UNROLL,
                    Some(source_record.template_id), variant[2],
                    Some(source_record.family_hash))

\* The body of the for loop of unroll_and_insert, r the value of
\* insert_template; st holds the environment, the two counters and rets,
\* the sequence of the values insert_template returned so far.  The loop
\* itself is not one step: every pass commits a transaction of its own, and
\* the actions that call this take one pass each.
unroll_insert_step(st, r) ==
    [env |-> r.env,
     inserted |-> st.inserted + (IF r.ret # None THEN 1 ELSE 0),
     duplicates |-> st.duplicates + (IF r.ret = None THEN 1 ELSE 0),
     rets |-> Append(st.rets, r.ret)]

(***************************************************************************)
(* database/witnesses.py                                                   *)
(***************************************************************************)
\* WitnessRecord.to_bytes: the packed fields.
WitnessRecord_to_bytes(record) ==
    [witness_id |-> record.witness_id,
     basis_id |-> record.basis_id,
     width |-> record.width,
     witness_len |-> record.witness_len,
     witness_hash |-> record.witness_hash,
     source_template_id |-> record.source_template_id,
     gates_len |-> Len(record.gates_encoded),
     gates_encoded |-> record.gates_encoded]

WitnessRecord_from_bytes(data) ==
    [witness_id |-> data.witness_id,
     basis_id |-> data.basis_id,
     width |-> data.width,
     witness_len |-> data.witness_len,
     witness_hash |-> data.witness_hash,
     gates_encoded |-> SubSeq(data.gates_encoded, 1, data.gates_len),
     source_template_id |-> data.source_template_id]

compute_witness_length(gate_count) == (gate_count \div 2) + 1

\* struct.unpack("<Q", window_hash[:8])[0]: the first 8 bytes of a digest,
\* read as one 64-bit integer.  A digest is represented by the message it
\* was computed from; its first 8 bytes are as good as unique to the message
\* (two of the messages of this model agree on them with probability below
\* 2^-40), so the token is the message under the tag first8: equal windows
\* give equal tokens, different windows different ones, and a token is not a
\* digest.
first_8_bytes(hash) == [first8 |-> hash.blake3]

compute_kgram_tokens(gates, k, width) ==
    IF Len(gates) < k THEN <<>>
    ELSE [i \in 1..(Len(gates) - k + 1) |->
             first_8_bytes(canonicalize(SubSeq(gates, i, i + k - 1),
                                        width).hash)]

\* WitnessStore.__init__ without the 2-grams.
k_gram_sizes_without_pairs == <<3>>

\* WitnessStore.__init__: the default k_gram_sizes.
k_gram_sizes == <<2, 3>>

\* insert_witness: add_to_prefilter for every token of the list.
RECURSIVE add_tokens(_, _, _, _)
add_tokens(e, tokens, width, witness_id) ==
    IF tokens = <<>> THEN e
    ELSE add_tokens(add_to_prefilter(e, BASIS_ECA57, width, Head(tokens),
                                     witness_id),
                    Tail(tokens), width, witness_id)

\* insert_witness when the key is absent: the record with the id allocated
\* by inc = increment_witness_count(e), stored and added to the prefilter.
insert_new_witness(inc, c, width, witness_len, source_template_id) ==
    LET record == [witness_id |-> inc.ret,
                   basis_id |-> BASIS_ECA57,
                   width |-> width,
                   witness_len |-> witness_len,
                   witness_hash |-> c.hash,
                   gates_encoded |-> encode_gates_eca57(c.gates),
                   source_template_id |-> source_template_id]
    IN  [env |-> add_tokens(
                     put_witness(inc.env, BASIS_ECA57, width, witness_len,
                                 c.hash, WitnessRecord_to_bytes(record)),
                     Flat([i \in DOMAIN k_gram_sizes |->
                              compute_kgram_tokens(c.gates, k_gram_sizes[i],
                                                   width)]),
                     width, inc.ret),
         ret |-> Some(record)]

\* WitnessStore.insert_witness: the environment after the write transaction
\* and the returned record (None for a duplicate).
insert_witness(e, gates, width, source_template_id) ==
    LET c == canonicalize(gates, width)
    IN  IF get_witness(e, BASIS_ECA57, width, Len(gates), c.hash) # None
        THEN [env |-> e, ret |-> None]
        ELSE insert_new_witness(increment_witness_count(e), c, width,
                                Len(gates), source_template_id)

\* gates[:witness_len]
first_gates(gates, witness_len) ==
    IF witness_len >= Len(gates) THEN gates ELSE SubSeq(gates, 1, witness_len)

\* WitnessStore.build_witnesses_from_template
build_witnesses_from_template(e, template) ==
    insert_witness(e,
        first_gates(decode_gates_eca57(template.gates_encoded),
            compute_witness_length(
                Len(decode_gates_eca57(template.gates_encoded)))),
        template.width, template.template_id)

\* WitnessStore.lookup_by_token
lookup_by_token(e, width, token_hash) ==
    lookup_prefilter(e, BASIS_ECA57, width, token_hash)

(***************************************************************************)
(* truth_table/truth_table.py, sat/cnf.py, sat/solver.py and               *)
(* synthesizers/eca57_synthesizer.py                                       *)
(*                                                                         *)
(* A CNF variable has a Boolean value.  The exactly(., 1) constraints make *)
(* the t, c1 and c2 variables of a gate one-hot, so an assignment of the   *)
(* structure variables is a sequence of triples <<target, ctrl1, ctrl2>>:  *)
(* t_w_g is true exactly when w is the first component of the g-th triple, *)
(* and so on.  equals_and, equals_or and xor define every other variable   *)
(* from these, so the formula is represented by the set of the structure   *)
(* assignments that extend to a model of it.                               *)
(***************************************************************************)
Wires(width) == 0..(width - 1)

\* TruthTable.value_to_row: the bits of value, least significant first.
value_to_row(value, bits_num) ==
    [s \in 0..(bits_num - 1) |-> (value \div (2 ^ s)) % 2]

\* TruthTable(bits_num): the identity table, one row per value.
TruthTable(bits_num) ==
    [value \in 0..((2 ^ bits_num) - 1) |-> value_to_row(value, bits_num)]

\* CNF.equals_and(a, bs): the value a is forced to.
equals_and(literals_b) ==
    \A k \in DOMAIN literals_b : literals_b[k]

\* CNF.equals_or(a, bs): the value a is forced to.
equals_or(literals_b) ==
    \E k \in DOMAIN literals_b : literals_b[k]

\* CNF.xor([a, b, c]) forbids the odd assignments: the value a is forced to.
xor(b, c) == b # c

\* CNF._max_clause_len
max_clause_len == 3

\* sum(prod) for a tuple prod of 1 and -1.
sum_of(prod) ==
    Cardinality({k \in DOMAIN prod : prod[k] = 1})
        - Cardinality({k \in DOMAIN prod : prod[k] = -1})

\* CNF.xor: the sign tuples prod of product(*ones) that pass the test
\* (sum(prod) - len(literals) + 2) % 4 == 0.
xor_products(n) ==
    {prod \in [1..n -> {1, -1}] : (sum_of(prod) - n + 2) % 4 = 0}

\* CNF.xor on at most _max_clause_len literals: one clause per kept sign
\* tuple.
xor_direct(ids) ==
    {[k \in DOMAIN ids |-> prod[k] * ids[k]] : prod \in xor_products(Len(ids))}

RECURSIVE CNF_xor(_, _)

\* CNF.xor: the second call of the split, after the first returned head.
xor_rest(head, literals) ==
    LET rest == CNF_xor(literals, head.next_id)
    IN  [clauses |-> head.clauses \cup rest.clauses,
         next_id |-> rest.next_id]

\* CNF.xor(literals) with literals as signed variable ids: the clauses it
\* appends and the id the pool gives to the next reserved name. A longer
\* list is split with an auxiliary literal A<counter> reserved from the pool.
CNF_xor(literals, next_id) ==
    IF Len(literals) <= max_clause_len
    THEN [clauses |-> xor_direct(literals), next_id |-> next_id]
    ELSE LET head == CNF_xor(<<next_id>>
                                 \o SubSeq(literals, 1, max_clause_len - 1),
                             next_id + 1)
         IN  xor_rest(head, <<next_id>>
                          \o SubSeq(literals, max_clause_len, Len(literals)))

\* The value of a signed literal under an assignment of the variables.
literal_value(assignment, lit) ==
    IF lit > 0 THEN assignment[lit] ELSE ~assignment[-lit]

\* CNF.nand(a, b): the clause [-a, -b].
nand(literal_a, literal_b) == ~(literal_a /\ literal_b)

\* The assignments of the t, c1 and c2 variables of one gate that satisfy
\* the three exactly(., 1) constraints.
exactly_one(width) == Wires(width) \X Wires(width) \X Wires(width)

\* The encoding without the nand clauses.
distinct_wires_unconstrained(gate, width) == TRUE

\* The nand clauses of one gate: target, ctrl1 and ctrl2 share no wire.
distinct_wires(gate, width) ==
    \A w \in Wires(width) :
        /\ nand(gate[1] = w, gate[2] = w)
        /\ nand(gate[1] = w, gate[3] = w)
        /\ nand(gate[2] = w, gate[3] = w)

\* The gate application constraints of one gate and one input word: the
\* data variables after the gate, from those before it.
gate_application(gate, data, width) ==
    LET ctrl1_val == equals_or([w \in Wires(width) |->
                         equals_and(<<gate[2] = w, data[w]>>)])
        ctrl2_val == equals_or([w \in Wires(width) |->
                         equals_and(<<gate[3] = w, data[w]>>)])
        or_cond == equals_or(<<ctrl1_val, ~ctrl2_val>>)
    IN  [w \in Wires(width) |->
            xor(data[w], equals_and(<<or_cond, gate[1] = w>>))]

RECURSIVE data_flow(_, _, _)
data_flow(assignment, data, width) ==
    IF assignment = <<>> THEN data
    ELSE data_flow(Tail(assignment),
                   gate_application(Head(assignment), data, width), width)

\* The data flow constraints of every input word: the input is set on the
\* data variables before the first gate, and of the output row the bits
\* that are 0 or 1 on those after the last; a bit of another value leaves
\* its data variable free.
satisfies_data_flow(assignment, output, width) ==
    \A i \in 0..((2 ^ width) - 1) :
        \A final \in {data_flow(assignment,
                           [w \in Wires(width) |->
                               ((i \div (2 ^ w)) % 2) = 1], width)} :
            \A w \in Wires(width) :
                output[i][w] \in {0, 1} => final[w] = (output[i][w] = 1)

\* ECA57Synthesizer._make_eca57_cnf.
make_eca57_cnf(output, width, gate_count) ==
    {assignment \in [1..gate_count ->
                        {gate \in exactly_one(width) :
                            distinct_wires(gate, width)}] :
        satisfies_data_flow(assignment, output, width)}

\* A raised exception, or a returned value.
Raised(exception) == [raised |-> Some(exception), value |-> None]
Returned(value) == [raised |-> None, value |-> Some(value)]

\* The keyword parameters of ECA57Synthesizer.__init__.
ECA57Synthesizer_parameters == {"output", "gate_count", "solver"}

\* ECA57Synthesizer(TruthTable(width), gate_count, ...) called with the
\* given keywords.
ECA57Synthesizer_init(width, gate_count, keywords) ==
    IF ~(keywords \subseteq ECA57Synthesizer_parameters)
    THEN Raised("TypeError")
    ELSE IF width < MinWidth THEN Raised("AssertionError")
    ELSE Returned([width |-> width, gate_count |-> gate_count,
                   cnf |-> make_eca57_cnf(TruthTable(width), width,
                                          gate_count),
                   clauses |-> {}, circuit |-> None])

\* The structure variables <<role, gate, wire>> a solver model sets true
\* (role 1 is t, 2 is c1, 3 is c2).
literals_of(assignment, width) ==
    {<<role, g, w>> \in (1..3) \X (DOMAIN assignment) \X Wires(width) :
        assignment[g][role] = w}

\* Solver.solve(cnf): the answers a solver can give.
Solver_solve(cnf, width) ==
    IF cnf = {} THEN {[sat |-> FALSE, literals |-> {}]}
    ELSE {[sat |-> TRUE, literals |-> literals_of(assignment, width)] :
             assignment \in cnf}

SetMax(S) == CHOOSE x \in S : \A y \in S : y <= x

\* ECA57Synthesizer.solve, the extraction of the gates: for each gate and
\* role the last wire whose variable is among the literals.
extract_gates(literals, width, gate_count) ==
    [g \in 1..gate_count |->
        <<SetMax({w \in Wires(width) : <<1, g, w>> \in literals}),
          SetMax({w \in Wires(width) : <<2, g, w>> \in literals}),
          SetMax({w \in Wires(width) : <<3, g, w>> \in literals})>>]

\* ECA57Synthesizer.solve, given the solver's answer.
solve(s, solution) ==
    IF s.circuit # None THEN [synth |-> s, ret |-> s.circuit]
    ELSE IF ~solution.sat THEN [synth |-> s, ret |-> None]
    ELSE [synth |-> [s EXCEPT !.circuit =
                        Some(extract_gates(solution.literals, s.width,
                                           s.gate_count))],
          ret |-> Some(extract_gates(solution.literals, s.width,
                                     s.gate_count))]

\* ECA57Synthesizer.exclude_solution, the exclusion list: the literal
\* <<role, gate, wire, sign>> of every structure variable of the gates of
\* the circuit, positive for the wire the gate uses.
exclusion_list(circuit, width) ==
    {<<role, g, w, circuit[g][role] = w>> :
        role \in 1..3, g \in DOMAIN circuit, w \in Wires(width)}

\* exclude_by_values that appends the clause of the literals as given.
exclude_by_values_not_negated(cnf, literals) ==
    {assignment \in cnf :
        \E lit \in literals :
            ((assignment[lit[2]][lit[1]] = lit[3]) = lit[4]) = TRUE}

\* CNF.exclude_by_values: the clause of the negated literals is appended.
exclude_by_values(cnf, literals) ==
    {assignment \in cnf :
        \E lit \in literals :
            ((assignment[lit[2]][lit[1]] = lit[3]) = lit[4]) = FALSE}

\* ECA57Synthesizer.exclude_solution.
exclude_solution(s, circuit) ==
    [s EXCEPT !.cnf = exclude_by_values(@, exclusion_list(circuit, s.width)),
              !.clauses = @ \cup {exclusion_list(circuit, s.width)},
              !.circuit = None]

(***************************************************************************)
(* synthesizers/eca57_dimgroup_synthesizer.py, scripts/explore_staggered.py*)
(***************************************************************************)
\* ECA57PartialSynthesizer.__init__: the call of ECA57Synthesizer it makes.
ECA57PartialSynthesizer_init(width, gate_count) ==
    ECA57Synthesizer_init(width, gate_count,
                          {"solver", "disable_empty_lines"})

\* ECA57DimGroupSynthesizer.synthesize, through the construction of the
\* partial synthesizer in the first iteration of its loop: the exception
\* that leaves the loop, the DimGroup and the solver calls made until then.
ECA57DimGroupSynthesizer_synthesize(width, gate_count) ==
    [raised |-> ECA57PartialSynthesizer_init(width, gate_count).raised,
     dg |-> <<>>, iteration |-> 1, events |-> <<>>]

\* MAX_GC_BY_WIDTH.get(width, 6).
MAX_GC_BY_WIDTH(width) ==
    CASE width = 3 -> 12
      [] width = 4 -> 10
      [] width = 5 -> 8
      [] width = 6 -> 7
      [] OTHER -> 6

\* explore_staggered: the gate counts of one width.
gc_range(width, single_gc) ==
    IF single_gc # None
    THEN IF 2 <= single_gc[1] /\ single_gc[1] <= MAX_GC_BY_WIDTH(width)
         THEN <<single_gc[1]>>
         ELSE <<>>
    ELSE [k \in 1..(MAX_GC_BY_WIDTH(width) - 1) |-> k + 1]

\* explore_staggered: the cells <<width, gc>> in the order of its loops.
explore_cells(min_width_limit, max_width_limit, single_gc) ==
    Flat([k \in 1..(max_width_limit - min_width_limit + 1) |->
            [j \in 1..Len(gc_range(min_width_limit + k - 1, single_gc)) |->
                <<min_width_limit + k - 1,
                  gc_range(min_width_limit + k - 1, single_gc)[j]>>]])

\* explore_staggered, through the synthesize call of its first cell: the
\* cell, an exception that leaves the driver, the cells processed, the
\* solver and store calls made, and the store.
explore_first_cell(e, cell) ==
    [env |-> e, cell |-> Some(cell),
     raised |-> ECA57DimGroupSynthesizer_synthesize(cell[1], cell[2]).raised,
     processed |-> <<>>,
     events |-> ECA57DimGroupSynthesizer_synthesize(cell[1], cell[2]).events]

explore_staggered(e, cells) ==
    IF cells = <<>>
    THEN [env |-> e, cell |-> None, raised |-> None, processed |-> <<>>,
          events |-> <<>>]
    ELSE explore_first_cell(e, cells[1])

(***************************************************************************)
(* Inputs of the model.                                                    *)
(***************************************************************************)
\* MaxGateKinds gates over the wires of the width: the gate <<0, 1, 2>> and
\* its shifts along the wires.
GateAlphabet(width) ==
    {<<k % width, (k + 1) % width, (k + 2) % width>> :
        k \in 0..(MaxGateKinds - 1)}

RECURSIVE ListsUpTo(_, _)
ListsUpTo(alphabet, n) ==
    IF n = 0 THEN {<<>>}
    ELSE LET shorter == ListsUpTo(alphabet, n - 1)
         IN  shorter \cup {Append(l, g) : l \in shorter, g \in alphabet}

\* One longer list, of which unroll_and_insert stores several variants:
\* LongSeedGates - 1 times the gate <<0, 1, 2>>, then its shift.
LongSeed(width) ==
    [i \in 1..LongSeedGates |->
        IF i < LongSeedGates THEN <<0, 1, 2>>
        ELSE <<1 % width, 2 % width, 3 % width>>]

\* The gate lists passed to the store: the lists of at most MaxGates gates
\* and the longer one.
InputGateLists(width) ==
    ListsUpTo(GateAlphabet(width), MaxGates) \cup {LongSeed(width)}

\* The configurations unroll_and_insert is called with: UnrollConfig() and
\* configurations with fewer permutations, without mirror or rotation.
StoreUnrollConfigs ==
    {UnrollConfig_default,
     [UnrollConfig_default EXCEPT !.max_permutations = MaxPermutations],
     [UnrollConfig_default EXCEPT !.max_permutations = MaxPermutations,
                                  !.do_mirror = FALSE],
     [UnrollConfig_default EXCEPT !.max_permutations = MaxPermutations,
                                  !.do_rotate = FALSE, !.do_mirror = FALSE]}

(***************************************************************************)
(* State.                                                                  *)
(*   env          the LMDB environment of the store                        *)
(*   calls        number of calls of insert_template and of                *)
(*                unroll_and_insert the program has made so far            *)
(*   passed_in    <<width, gate_count, canonical hash>> of every gate list *)
(*                handed to insert_template so far                         *)
(*   returned_ids template_id of every record insert_template returned,    *)
(*                in call order                                            *)
(*   last_call    the last store API call: its name, arguments, return     *)
(*                value and the environment it started from                *)
(*   synth        the ECA57Synthesizer in use (None before it is made):    *)
(*                its dimensions, formula, exclusion clauses and cached    *)
(*                circuit                                                  *)
(*   run          the last synthesizer call: its name, dimensions, return  *)
(*                value or exception                                       *)
(*   driver       the run of explore_staggered: its status, the cells of   *)
(*                its loops, first cell, exception, processed cells and    *)
(*                the calls it made                                        *)
(*   fn           the last call of a library function: its name, arguments *)
(*                and result; for unroll_and_insert, gate_swap_dfs,        *)
(*                _solve_external and cmd_unroll the frame of the call     *)
(*                while it runs                                            *)
(*   racer        one call of SolverRacer.solve: its position, the worker  *)
(*                processes, the result queue and the answer               *)
(***************************************************************************)
VARIABLES env, calls, passed_in, returned_ids, last_call, synth, run, driver,
          fn, racer

vars == <<env, calls, passed_in, returned_ids, last_call, synth, run, driver,
          fn, racer>>

store_vars == <<env, calls, passed_in, returned_ids, last_call>>

synth_vars == <<synth, run, driver>>

side_vars == <<fn, racer>>

StoredRecords(e) ==
    {TemplateRecord_from_bytes(e.templates_by_hash[k]) :
        k \in DOMAIN e.templates_by_hash}

PassedKey(gates, width) ==
    <<width, Len(gates), canonicalize(gates, width).hash>>

NoCall ==
    [op |-> "none", gates |-> <<>>, width |-> 0, family_hash |-> None,
     source |-> None, variants |-> <<>>, ret |-> None, rets |-> <<>>,
     inserted |-> 0, duplicates |-> 0, before |-> TemplateDBEnv_new]

NoRun ==
    [op |-> "none", width |-> 0, gate_count |-> 0, ret |-> None,
     excluded |-> None, raised |-> None, dg |-> <<>>, events |-> <<>>]

NoDriver ==
    [status |-> "idle", parallel_unroll |-> FALSE, cells |-> <<>>,
     cell |-> None, raised |-> None, processed |-> <<>>, events |-> <<>>]

NoFn == [op |-> "none"]

\* No race: SolverRacer.solve has not been called.
NoRace ==
    [pc |-> "idle", solver_names |-> <<>>, worker |-> <<>>, queue |-> <<>>,
     puts |-> <<>>, finished_count |-> 0,
     final_result |-> [sat |-> FALSE, model |-> <<>>], next |-> 1,
     terminated |-> {}, returned |-> None, raised |-> None]

Init ==
    /\ fn = NoFn
    /\ racer = NoRace
    /\ synth = None
    /\ run = NoRun
    /\ driver = NoDriver
    /\ env = TemplateDBEnv_new
    /\ calls = 0
    /\ passed_in = {}
    /\ returned_ids = <<>>
    /\ last_call = NoCall

\* The argument combinations the callers of insert_template use: a SAT seed
\* (explore_staggered, build-db), a variant of a stored record (unroll,
\* explore_staggered) and a record copied from another store (merge_jobs).
InsertArgs(e) ==
    {[origin |-> OriginKind_SAT, origin_template_id |-> None,
      unroll_ops |-> 0, family_hash |-> None]}
    \cup {[origin |-> OriginKind_UNROLL,
           origin_template_id |-> Some(r.template_id),
           unroll_ops |-> UNROLL_ROTATE,
           family_hash |-> Some(r.family_hash)] : r \in StoredRecords(e)}
    \cup {[origin |-> r.origin, origin_template_id |-> None,
           unroll_ops |-> r.unroll_ops,
           family_hash |-> Some(r.family_hash)] : r \in StoredRecords(e)}

\* The state after insert_template(gates, width, ...) returned r.
InsertTemplateReturn(gates, width, family_hash, r) ==
    /\ env' = r.env
    /\ passed_in' = passed_in \cup {PassedKey(gates, width)}
    /\ returned_ids' = IF r.ret = None THEN returned_ids
                       ELSE Append(returned_ids, r.ret[1].template_id)
    /\ last_call' = [NoCall EXCEPT !.op = "insert_template",
                        !.gates = gates, !.width = width,
                        !.family_hash = family_hash,
                        !.ret = r.ret, !.before = env]

\* One call of TemplateStore.insert_template.
InsertTemplate ==
    /\ fn = NoFn
    /\ calls < MaxCalls
    /\ \E width \in Widths :
       \E gates \in InputGateLists(width) :
       \E a \in InsertArgs(env) :
          InsertTemplateReturn(gates, width, a.family_hash,
              insert_template(env, gates, width, a.origin,
                  a.origin_template_id, a.unroll_ops, a.family_hash))
    /\ calls' = calls + 1
    /\ UNCHANGED <<synth_vars, side_vars>>

\* The gate lists a caller holds for a stored record: the list it inserted,
\* or the decoded canonical gates.
GatesOf(source) ==
    {g \in InputGateLists(source.width) \cup
              {decode_gates_eca57(source.gates_encoded)} :
        PassedKey(g, source.width)
            = <<source.width, source.gate_count, source.canonical_hash>>}

\* unroll_and_insert up to its for loop: the frame of the call, with the
\* variants unroll_template will yield and the store the call began on.
UnrollAndInsertCall ==
    /\ fn = NoFn
    /\ calls < MaxCalls
    /\ \E source \in StoredRecords(env) :
       \E gates \in GatesOf(source) :
       \E config \in StoreUnrollConfigs :
          fn' = [op |-> "unroll_and_insert", source |-> source,
                 gates |-> gates, width |-> source.width,
                 variants |-> unroll_template(gates, source.width, config),
                 inserted |-> 0, duplicates |-> 0, rets |-> <<>>,
                 before |-> env]
    /\ calls' = calls + 1
    /\ UNCHANGED <<env, passed_in, returned_ids, last_call, synth_vars,
                   racer>>

\* The state after one pass of the for loop of unroll_and_insert, which
\* passed variant to insert_template and got r: insert_template has
\* committed its write transaction, the counters are updated.
UnrollInsertVariantReturn(variant, r) ==
    /\ InsertTemplateReturn(variant[1], fn.width,
                            Some(fn.source.family_hash), r)
    /\ \E st \in {unroll_insert_step([env |-> env, inserted |-> fn.inserted,
                                       duplicates |-> fn.duplicates,
                                       rets |-> fn.rets], r)} :
           fn' = [fn EXCEPT !.inserted = st.inserted,
                            !.duplicates = st.duplicates,
                            !.rets = st.rets]

\* One pass of the for loop of unroll_and_insert: the next variant goes to
\* insert_template, which commits a write transaction of its own.
UnrollInsertVariant ==
    /\ fn.op = "unroll_and_insert"
    /\ Len(fn.rets) < Len(fn.variants)
    /\ \E variant \in {fn.variants[Len(fn.rets) + 1]} :
           UnrollInsertVariantReturn(variant,
               unroll_insert_variant(env, fn.source, variant, fn.width))
    /\ UNCHANGED <<calls, synth_vars, racer>>

\* unroll_template is exhausted: unroll_and_insert returns its counters.
UnrollAndInsertReturn ==
    /\ fn.op = "unroll_and_insert"
    /\ Len(fn.rets) = Len(fn.variants)
    /\ last_call' = [NoCall EXCEPT !.op = "unroll_and_insert",
                        !.gates = fn.gates, !.width = fn.width,
                        !.source = Some(fn.source),
                        !.variants = fn.variants, !.rets = fn.rets,
                        !.inserted = fn.inserted,
                        !.duplicates = fn.duplicates, !.before = fn.before]
    /\ fn' = NoFn
    /\ UNCHANGED <<env, calls, passed_in, returned_ids, synth_vars, racer>>

\* The calls of one process that writes the store, one at a time: a call of
\* insert_template is one write transaction, a call of unroll_and_insert is
\* one write transaction per variant, and every store in between is a state.
Next ==
    \/ InsertTemplate
    \/ UnrollAndInsertCall
    \/ UnrollInsertVariant
    \/ UnrollAndInsertReturn

Spec == Init /\ [][Next]_vars

(***************************************************************************)
(* The synthesizer and the driver.                                         *)
(***************************************************************************)
SynthWidths == MinWidth..MaxSynthWidth

\* The circuits exclude_solution is called with: the circuit solve returned
\* last (visualize_circuits).
ExcludedCircuits(s) ==
    {s.circuit[k] : k \in DOMAIN s.circuit}

\* A behaviour is the run of one program: one that uses an ECA57Synthesizer
\* directly, one that calls ECA57DimGroupSynthesizer.synthesize, or the
\* explore driver.
NotStarted ==
    /\ synth = None
    /\ run.op = "none"
    /\ driver.status = "idle"

\* ECA57Synthesizer(TruthTable(width), gate_count, solver).
Construct ==
    /\ NotStarted
    /\ \E width \in SynthWidths, gate_count \in 0..MaxSynthGates,
          keywords \in {{}, {"gate_count", "solver"}} :
          /\ ECA57Synthesizer_init(width, gate_count, keywords).raised = None
          /\ synth' = ECA57Synthesizer_init(width, gate_count,
                                            keywords).value
          /\ run' = [NoRun EXCEPT !.op = "init", !.width = width,
                                  !.gate_count = gate_count]
    /\ UNCHANGED <<driver, store_vars, side_vars>>

\* The state after solve returned r.
SolveReturn(r) ==
    /\ synth' = Some(r.synth)
    /\ run' = [NoRun EXCEPT !.op = "solve", !.width = r.synth.width,
                            !.gate_count = r.synth.gate_count,
                            !.ret = r.ret]

\* One call of ECA57Synthesizer.solve.
Solve ==
    /\ synth # None
    /\ \E solution \in Solver_solve(synth[1].cnf, synth[1].width) :
          SolveReturn(solve(synth[1], solution))
    /\ UNCHANGED <<driver, store_vars, side_vars>>

\* One call of ECA57Synthesizer.exclude_solution.
ExcludeSolution ==
    /\ synth # None
    /\ Cardinality(synth[1].clauses) < MaxExclusions
    /\ \E circuit \in ExcludedCircuits(synth[1]) :
          /\ synth' = Some(exclude_solution(synth[1], circuit))
          /\ run' = [NoRun EXCEPT !.op = "exclude_solution",
                                  !.width = synth[1].width,
                                  !.gate_count = synth[1].gate_count,
                                  !.excluded = Some(circuit)]
    /\ UNCHANGED <<driver, store_vars, side_vars>>

\* The state after ECA57DimGroupSynthesizer(width, gate_count).synthesize()
\* ended with r.  Line 131 raises in the first iteration on every input, so
\* the rest of the loop body is not reached.
DimGroupSynthesizeReturn(width, gate_count, r) ==
    /\ r.raised # None
    /\ run' = [NoRun EXCEPT !.op = "dimgroup_synthesize", !.width = width,
                            !.gate_count = gate_count, !.raised = r.raised,
                            !.dg = r.dg, !.events = r.events]

\* One call of ECA57DimGroupSynthesizer(width, gate_count).synthesize().
DimGroupSynthesize ==
    /\ synth = None
    /\ driver.status = "idle"
    /\ \E width \in SynthWidths, gate_count \in 0..MaxSynthGates :
          DimGroupSynthesizeReturn(width, gate_count,
              ECA57DimGroupSynthesizer_synthesize(width, gate_count))
    /\ UNCHANGED <<synth, driver, store_vars, side_vars>>

\* The state after explore_staggered ended with r: it raised in its first
\* cell, or it had no cell to explore.
ExploreStaggeredReturn(parallel_unroll, cells, r) ==
    /\ r.cell # None => r.raised # None
    /\ env' = r.env
    /\ driver' = [status |-> IF r.raised # None THEN "raised"
                             ELSE "complete",
                  parallel_unroll |-> parallel_unroll, cells |-> cells,
                  cell |-> r.cell,
                  raised |-> r.raised, processed |-> r.processed,
                  events |-> r.events]

\* One run of explore_staggered on the store.
ExploreStaggered ==
    /\ NotStarted
    /\ \E min_width_limit \in SynthWidths :
       \E max_width_limit \in SynthWidths :
       \E single_gc \in {None} \cup {Some(k) : k \in 1..MaxSynthGates} :
       \E parallel_unroll \in BOOLEAN :
          ExploreStaggeredReturn(parallel_unroll,
              explore_cells(min_width_limit, max_width_limit, single_gc),
              explore_staggered(env,
                  explore_cells(min_width_limit, max_width_limit,
                                single_gc)))
    /\ UNCHANGED <<synth, run, calls, passed_in, returned_ids, last_call,
                   side_vars>>

SynthNext ==
    \/ Construct
    \/ Solve
    \/ ExcludeSolution
    \/ DimGroupSynthesize
    \/ ExploreStaggered

SynthSpec == Init /\ [][SynthNext]_vars

(***************************************************************************)
(* The library functions, each applied once to arguments of bounded size.  *)
(***************************************************************************)

LibUnchanged == UNCHANGED <<store_vars, synth_vars, racer>>

\* The widths unroll_template is applied at: the smallest, and one with room
\* for two gates on disjoint wires.
UnrollWidths == {MinWidth, MaxUnrollWidth}

\* A gate on the first three wires and one on the last three: they share
\* wires at the smallest width and are disjoint at the largest.
UnrollAlphabet(width) ==
    {<<0, 1, 2>>, <<width - 2, width - 1, width - 3>>}

\* Every combination of the four switches of UnrollConfig.
UnrollConfigs ==
    {[UnrollConfig_default EXCEPT !.max_permutations = MaxPermutations,
                                  !.do_mirror = m, !.do_permute = p,
                                  !.do_rotate = r, !.do_swap_dfs = s] :
        m \in BOOLEAN, p \in BOOLEAN, r \in BOOLEAN, s \in BOOLEAN}

\* list(unroll_template(gates, width, basis, config))
UnrollTemplate ==
    /\ fn = NoFn
    /\ \E width \in UnrollWidths :
       \E gates \in ListsUpTo(UnrollAlphabet(width), MaxUnrollGates) :
       \E config \in UnrollConfigs :
           fn' = [op |-> "unroll_template", gates |-> gates, width |-> width,
                  config |-> config,
                  result |-> unroll_template(gates, width, config)]
    /\ LibUnchanged

\* Every permutation of the wires, as the list perm with perm[old] = new.
WirePermutations(width) ==
    LET perms == permutations(0..(width - 1))
    IN  {perms[k] : k \in DOMAIN perms}

\* ECA57Basis.canonicalize of a gate list and of the list permute_lines
\* makes of it.
Canonicalize ==
    /\ fn = NoFn
    /\ \E width \in Widths :
       \E gates \in ListsUpTo(all_eca57_gates(width), MaxGates) :
       \E perm \in WirePermutations(width) :
           fn' = [op |-> "canonicalize", gates |-> gates, width |-> width,
                  perm |-> perm,
                  permuted |-> permute_lines(gates, perm),
                  result |-> canonicalize(gates, width),
                  permuted_result |->
                      canonicalize(permute_lines(gates, perm), width)]
    /\ LibUnchanged

\* ECA57Basis.commutes(g1, g2)
Commutes ==
    /\ fn = NoFn
    /\ \E width \in UnrollWidths :
       \E g1 \in UnrollAlphabet(width) :
       \E g2 \in all_eca57_gates(width) :
           fn' = [op |-> "commutes", g1 |-> g1, g2 |-> g2, width |-> width,
                  result |-> commutes(g1, g2)]
    /\ LibUnchanged

\* TemplateDBEnv._init_meta: the meta entries are written only when the
\* store has no schema_version entry, that is, when it is new (None).
init_meta(disk) ==
    IF disk = None THEN TemplateDBEnv_new ELSE disk[1]

\* TemplateDBEnv.__init__(path, config) on the store found at path: the
\* databases are opened and, unless config.readonly, _init_meta runs.
TemplateDBEnv_init(disk, readonly) ==
    Returned(IF readonly THEN disk[1] ELSE init_meta(disk))

\* Stores written earlier, by code with these or with later version
\* constants: a new one and one that holds a template.
ExistingStores ==
    LET written == insert_template(TemplateDBEnv_new,
                                   << <<0, 1, 2>>, <<0, 1, 2>> >>, MinWidth,
                                   OriginKind_SAT, None, 0, None).env
    IN  {[e EXCEPT !.meta.schema_version = sv,
                   !.meta.canonicalization_version = cv] :
            e \in {TemplateDBEnv_new, written},
            sv \in {SCHEMA_VERSION, SCHEMA_VERSION + 1},
            cv \in {CANONICALIZATION_VERSION, CANONICALIZATION_VERSION + 1}}

\* TemplateDBEnv(path, config) on an existing store, then, if an environment
\* was handed out, TemplateStore(env, basis).insert_template(gates, width)
\* unless readonly, and TemplateStore.get_by_hash of the template that
\* ExistingStores wrote.
OpenStore ==
    /\ fn = NoFn
    /\ \E disk \in ExistingStores :
       \E readonly \in BOOLEAN :
       \E gates \in InputGateLists(MinWidth) :
           LET opened == TemplateDBEnv_init(Some(disk), readonly)
               usable == opened.raised = None
               insert == IF usable /\ ~readonly
                         THEN insert_template(opened.value[1], gates,
                                  MinWidth, OriginKind_SAT, None, 0, None)
                         ELSE [env |-> disk, ret |-> None]
           IN  fn' = [op |-> "TemplateDBEnv", disk |-> disk,
                      readonly |-> readonly, opened |-> opened,
                      gates |-> gates,
                      inserted |-> insert.ret,
                      found |-> IF usable
                                THEN get_by_hash(opened.value[1], MinWidth, 2,
                                         canonical_hash_256(
                                             << <<0, 1, 2>>, <<0, 1, 2>> >>,
                                             MinWidth))
                                ELSE None,
                      after |-> insert.env]
    /\ LibUnchanged

\* Lists of n literals over the variables 1..n, each plain or negated.
LiteralLists ==
    UNION {{[k \in 1..n |-> sign[k] * k] : sign \in [1..n -> {1, -1}]} :
              n \in 1..MaxLiterals}

\* CNF().xor(literals) on a formula whose pool holds the variables of the
\* literals.
Xor ==
    /\ fn = NoFn
    /\ \E literals \in LiteralLists :
           LET added == CNF_xor(literals, Len(literals) + 1)
           IN  fn' = [op |-> "xor", literals |-> literals,
                      clauses |-> added.clauses,
                      variables |-> added.next_id - 1]
    /\ LibUnchanged

\* The methods of TemplateStore (database/templates.py).
TemplateStore_methods ==
    {"insert_template", "get_by_hash", "iter_by_dims", "count_by_dims",
     "get_family_members"}

\* merge_databases: the body of the loop for one job store. The call
\* job_store.iter_all() raises AttributeError, TemplateStore having no such
\* method; the handler of the loop prints the error and the loop goes on.
merge_job(output_env, job_env) ==
    IF "iter_all" \in TemplateStore_methods
    THEN [env |-> output_env, inserted |-> 0, error |-> None]
    ELSE [env |-> output_env, inserted |-> 0, error |-> Some("AttributeError")]

\* merge_databases, the loop over the sorted job stores: the output store,
\* total_inserted and the errors printed.
RECURSIVE merge_jobs(_, _, _, _)
merge_jobs(output_env, job_dbs, total_inserted, errors) ==
    IF job_dbs = <<>>
    THEN [env |-> Some(output_env), ret |-> total_inserted,
          errors |-> errors]
    ELSE merge_jobs(merge_job(output_env, Head(job_dbs)).env, Tail(job_dbs),
                    total_inserted
                        + merge_job(output_env, Head(job_dbs)).inserted,
                    errors \o merge_job(output_env, Head(job_dbs)).error)

\* merge_databases(jobs_dir, output_db, dry_run): output_db is None when
\* there is no store at the output path yet.
merge_databases(job_dbs, output_db, dry_run) ==
    IF job_dbs = <<>>
    THEN [env |-> output_db, ret |-> 0, errors |-> <<>>]
    ELSE IF dry_run
    THEN [env |-> output_db, ret |-> Len(job_dbs), errors |-> <<>>]
    ELSE merge_jobs(TemplateDBEnv_init(output_db, FALSE).value[1], job_dbs,
                    0, <<>>)

\* Stores that jobs have written: an empty one, one with a template and one
\* with two templates.
JobStores ==
    LET one == insert_template(TemplateDBEnv_new,
                               << <<0, 1, 2>>, <<0, 1, 2>> >>, MinWidth,
                               OriginKind_SAT, None, 0, None)
        two == insert_template(one.env, <<>>, MinWidth, OriginKind_SAT, None,
                               0, None)
        other == insert_template(TemplateDBEnv_new, <<>>, MinWidth,
                                 OriginKind_SAT, None, 0, None)
    IN  {TemplateDBEnv_new, one.env, two.env, other.env}

\* merge_databases on the job stores found in jobs_dir, in sorted order.
MergeDatabases ==
    /\ fn = NoFn
    /\ \E n \in 0..MaxJobs :
       \E job_dbs \in [1..n -> JobStores] :
       \E output_db \in {None} \cup {Some(e) : e \in JobStores} :
       \E dry_run \in BOOLEAN :
           fn' = [op |-> "merge_databases", job_dbs |-> job_dbs,
                  output_db |-> output_db, dry_run |-> dry_run,
                  merged |-> merge_databases(job_dbs, output_db, dry_run)]
    /\ LibUnchanged

LibNext ==
    \/ MergeDatabases
    \/ UnrollTemplate
    \/ Canonicalize
    \/ Commutes
    \/ OpenStore
    \/ Xor

LibSpec == Init /\ [][LibNext]_vars

(***************************************************************************)
(* The witness store: templates are stored, and witnesses are built from   *)
(* stored templates.                                                       *)
(***************************************************************************)

\* TemplateStore.insert_template(gates, width), while the store holds fewer
\* than MaxWitnessTemplates templates.
StoreTemplate ==
    /\ get_template_count(env) < MaxWitnessTemplates
    /\ \E width \in Widths :
       \E gates \in ListsUpTo(UnrollAlphabet(width), MaxWitnessGates) :
           env' = insert_template(env, gates, width, OriginKind_SAT, None, 0,
                                  None).env
    /\ UNCHANGED <<calls, passed_in, returned_ids, last_call, synth_vars,
                   side_vars>>

\* WitnessStore(env, basis).build_witnesses_from_template(template) for a
\* template read from the store.
BuildWitnesses ==
    /\ calls < MaxBuilds
    /\ \E template \in StoredRecords(env) :
           LET built == build_witnesses_from_template(env, template)
           IN  /\ env' = built.env
               /\ fn' = [op |-> "build_witnesses_from_template",
                         template |-> template, ret |-> built.ret,
                         before |-> env]
    /\ calls' = calls + 1
    /\ UNCHANGED <<passed_in, returned_ids, last_call, synth_vars, racer>>

WitnessNext ==
    \/ StoreTemplate
    \/ BuildWitnesses

WitnessSpec == Init /\ [][WitnessNext]_vars

(***************************************************************************)
(* database/unroll.py: the generator gate_swap_dfs, step by step. fn holds *)
(* the frame of the generator: its arguments, visited, queue, node_count,  *)
(* current, the commuting pairs the for loop has still to try, and the     *)
(* lists yielded so far.                                                   *)
(***************************************************************************)

\* The head of the while loop without the count of the nodes.
gate_swap_pop_uncounted(st) ==
    [st EXCEPT !.queue = Tail(st.queue),
               !.current = Head(st.queue),
               !.yielded = Append(st.yielded, Head(st.queue)),
               !.idxs = adjacent_commuting_pairs(Head(st.queue)),
               !.pc = IF adjacent_commuting_pairs(Head(st.queue)) = <<>>
                      THEN "while" ELSE "for"]

\* The head of the while loop of gate_swap_dfs: current is popped from the
\* queue, counted and yielded; the for loop is entered when current has
\* commuting adjacent pairs.
gate_swap_pop(st) ==
    [st EXCEPT !.queue = Tail(st.queue),
               !.current = Head(st.queue),
               !.node_count = st.node_count + 1,
               !.yielded = Append(st.yielded, Head(st.queue)),
               !.idxs = adjacent_commuting_pairs(Head(st.queue)),
               !.pc = IF adjacent_commuting_pairs(Head(st.queue)) = <<>>
                      THEN "while" ELSE "for"]

\* The frame after the for loop tried its next pair and left vq.
gate_swap_tried(st, vq) ==
    [st EXCEPT !.visited = vq.visited, !.queue = vq.queue,
               !.idxs = Tail(st.idxs),
               !.pc = IF Tail(st.idxs) = <<>> THEN "while" ELSE "for"]

\* The call gate_swap_dfs(gates, width, basis, max_nodes) up to the while
\* loop.
GateSwapDfsCall ==
    /\ fn = NoFn
    /\ \E width \in UnrollWidths, max_nodes \in 0..MaxNodes :
       \E gates \in ListsUpTo(UnrollAlphabet(width), MaxUnrollGates) :
           fn' = [op |-> "gate_swap_dfs", pc |-> "while", gates |-> gates,
                  width |-> width, max_nodes |-> max_nodes,
                  visited |-> {canonicalize(gates, width).hash},
                  queue |-> <<gates>>, node_count |-> 0, current |-> <<>>,
                  idxs |-> <<>>, yielded |-> <<>>]
    /\ LibUnchanged

\* The while loop is entered, the queue being non-empty and node_count
\* below max_nodes, and yields current.
GateSwapDfsYield ==
    /\ fn.op = "gate_swap_dfs"
    /\ fn.pc = "while"
    /\ fn.queue # <<>> /\ fn.node_count < fn.max_nodes
    /\ fn' = gate_swap_pop(fn)
    /\ LibUnchanged

\* One pass of the for loop over the commuting pairs of current.
GateSwapDfsSwap ==
    /\ fn.op = "gate_swap_dfs"
    /\ fn.pc = "for"
    /\ \E swapped \in {swap_at(fn.current, Head(fn.idxs))} :
       \E swap_hash \in {canonicalize(swapped, fn.width).hash} :
           fn' = gate_swap_tried(fn,
                     gate_swap_visit(swapped, swap_hash,
                         [visited |-> fn.visited, queue |-> fn.queue]))
    /\ LibUnchanged

\* The while loop ends and the generator is exhausted.
GateSwapDfsStop ==
    /\ fn.op = "gate_swap_dfs"
    /\ fn.pc = "while"
    /\ ~(fn.queue # <<>> /\ fn.node_count < fn.max_nodes)
    /\ fn' = [fn EXCEPT !.pc = "done"]
    /\ LibUnchanged

DfsNext ==
    \/ GateSwapDfsCall
    \/ GateSwapDfsYield
    \/ GateSwapDfsSwap
    \/ GateSwapDfsStop

\* The caller (the for loop of unroll_template) asks the generator for its
\* next list until it is exhausted.
DfsSpec ==
    /\ Init
    /\ [][DfsNext]_vars
    /\ WF_vars(GateSwapDfsYield)
    /\ WF_vars(GateSwapDfsSwap)
    /\ WF_vars(GateSwapDfsStop)

(***************************************************************************)
(* sat/solver_racer.py: one call of SolverRacer.solve with its worker      *)
(* processes.                                                              *)
(***************************************************************************)

\* What Solver(name).solve(cnf) does in the process of solver number w: it
\* returns (True, model), returns (False, []) or raises an exception.
SolverOutcomes(w) ==
    {[exception |-> FALSE, sat |-> TRUE, model |-> <<w>>],
     [exception |-> FALSE, sat |-> FALSE, model |-> <<>>],
     [exception |-> TRUE, sat |-> FALSE, model |-> <<>>]}

\* SolverRacer(solver_names).solve(cnf) up to the wait for results. With one
\* name the solver runs in the caller; otherwise one process per name is
\* started on the clauses of cnf.
RaceSolve ==
    /\ racer.pc = "idle"
    /\ \E n \in 1..MaxSolvers :
           IF n = 1
           THEN \E res \in SolverOutcomes(1) :
                    racer' = [racer EXCEPT
                        !.pc = "returned", !.solver_names = <<1>>,
                        !.returned = IF res.exception THEN None
                                     ELSE Some([sat |-> res.sat,
                                                model |-> res.model]),
                        !.raised = IF res.exception THEN Some("Exception")
                                   ELSE None]
           ELSE racer' = [racer EXCEPT
                    !.pc = "loop", !.solver_names = [w \in 1..n |-> w],
                    !.worker = [w \in 1..n |-> "running"]]
    /\ UNCHANGED <<store_vars, synth_vars, fn>>

\* solve_worker in the process of solver w: the result of the solver, or
\* the exception it raised, is put on the queue. A process that was sent a
\* terminate request runs until the signal reaches it.
SolveWorker ==
    /\ \E w \in DOMAIN racer.worker :
       \E res \in SolverOutcomes(w) :
           /\ racer.worker[w] = "running"
           /\ racer' = [racer EXCEPT !.worker[w] = "put",
                                     !.queue = Append(@, <<w, res>>),
                                     !.puts = Append(@, <<w, res>>)]
    /\ UNCHANGED <<store_vars, synth_vars, fn>>

\* The process of solver w ends: solve_worker returned, or the terminate
\* request reached the process.
WorkerExit ==
    /\ \E w \in DOMAIN racer.worker :
           /\ \/ racer.worker[w] = "put"
              \/ racer.worker[w] = "running" /\ w \in racer.terminated
           /\ racer' = [racer EXCEPT !.worker[w] = "exited"]
    /\ UNCHANGED <<store_vars, synth_vars, fn>>

\* The loop body that goes on after an UNSAT result, until a SAT result.
race_get_until_sat(r) ==
    LET res == Head(r.queue)[2]
        count == r.finished_count + 1
    IN  [r EXCEPT !.queue = Tail(@), !.finished_count = count,
                  !.final_result = IF res.exception THEN @
                                   ELSE [sat |-> res.sat, model |-> res.model],
                  !.pc = IF ~res.exception /\ res.sat THEN "finally"
                         ELSE IF count < Len(r.solver_names) THEN "loop"
                         ELSE "finally"]

\* SolverRacer.solve: one iteration of the loop, result_queue.get() having
\* returned the head of the queue. An exception is skipped; any other
\* result becomes final_result and ends the loop.
race_get(r) ==
    LET res == Head(r.queue)[2]
        count == r.finished_count + 1
    IN  IF res.exception
        THEN [r EXCEPT !.queue = Tail(@), !.finished_count = count,
                       !.pc = IF count < Len(r.solver_names) THEN "loop"
                              ELSE "finally"]
        ELSE [r EXCEPT !.queue = Tail(@), !.finished_count = count,
                       !.final_result =
                           IF res.sat THEN [sat |-> TRUE, model |-> res.model]
                           ELSE [sat |-> FALSE, model |-> <<>>],
                       !.pc = "finally"]

RaceGet ==
    /\ racer.pc = "loop"
    /\ racer.queue # <<>>
    /\ racer' = race_get(racer)
    /\ UNCHANGED <<store_vars, synth_vars, fn>>

\* SolverRacer.solve, finally: the next process is terminated if it is
\* alive.
RaceTerminate ==
    /\ racer.pc = "finally"
    /\ racer.next <= Len(racer.solver_names)
    /\ racer' = [racer EXCEPT
           !.next = @ + 1,
           !.terminated = IF racer.worker[racer.next] # "exited"
                          THEN @ \cup {racer.next} ELSE @]
    /\ UNCHANGED <<store_vars, synth_vars, fn>>

\* SolverRacer.solve: after the joins, final_result is returned.
RaceReturn ==
    /\ racer.pc = "finally"
    /\ racer.next > Len(racer.solver_names)
    /\ racer' = [racer EXCEPT !.pc = "returned",
                              !.returned = Some(racer.final_result)]
    /\ UNCHANGED <<store_vars, synth_vars, fn>>

RacerNext ==
    \/ RaceSolve
    \/ SolveWorker
    \/ WorkerExit
    \/ RaceGet
    \/ RaceTerminate
    \/ RaceReturn

RacerSpec == Init /\ [][RacerNext]_vars

(***************************************************************************)
(* eca57_cli.py: cmd_unroll, one write transaction of its scan per step.   *)
(* fn holds the read transaction of iter_by_dims, the position of its      *)
(* cursor, the ids of the seeds visited and the frame of the running       *)
(* unroll_and_insert; env is the store the write transactions of           *)
(* insert_template commit to, one per variant.                             *)
(***************************************************************************)

\* A cursor that reads the store as the writers leave it.
cursor_view_uncommitted(txn, e) == e

\* read_txn: what a cursor of the read transaction txn sees while the
\* store is e: the store as it was when the transaction began.
cursor_view(txn, e) == txn

\* struct.pack("<Q", template_id): the 8 bytes of the id in a dims key,
\* least significant first (the ids of the model are below 2^31).
pack_Q(template_id) ==
    [i \in 1..8 |-> IF i > 4 THEN 0
                    ELSE (template_id \div (256 ^ (i - 1))) % 256]

\* The order of the keys of one cell in the dims index, which LMDB keeps
\* sorted as byte strings: the key of id_a comes before the key of id_b.
dims_key_before(id_a, id_b) ==
    \E i \in 1..8 :
        /\ pack_Q(id_a)[i] < pack_Q(id_b)[i]
        /\ \A j \in 1..(i - 1) : pack_Q(id_a)[j] = pack_Q(id_b)[j]

\* The entries of the cell in the dims index that the cursor has still to
\* come to: those with a key after its position (0 before the first).
cursor_entries(view, width, gate_count, position) ==
    {en \in iter_templates_by_dims(view, BASIS_ECA57, width, gate_count) :
        dims_key_before(position, en[1])}

\* The UnrollConfig of cmd_unroll with the default of --dfs-budget.
cmd_unroll_config ==
    [UnrollConfig_default EXCEPT !.swap_dfs_budget = 1000]

\* The gate number d of the six gates over three wires.
gate_of_digit(d) ==
    <<d % 3, ((d % 3) + 1 + (d \div 3)) % 3, ((d % 3) + 2 - (d \div 3)) % 3>>

\* Identity template number k of a larger cell: the gate <<0, 1, 2>> twice,
\* then, for each of the four base 6 digits of k, a gate twice.
earlier_template(k) ==
    << <<0, 1, 2>>, <<0, 1, 2>> >>
    \o Flat([i \in 1..4 |->
                << gate_of_digit((k \div (6 ^ (i - 1))) % 6),
                   gate_of_digit((k \div (6 ^ (i - 1))) % 6) >>])

\* The number of templates in the cells cmd_unroll scans, and in the larger
\* cell.
seed_count(e) ==
    Cardinality({k \in DOMAIN e.templates_by_hash : k[3] <= MaxUnrollGates})

earlier_count(e) ==
    Cardinality({k \in DOMAIN e.templates_by_hash : k[3] > MaxUnrollGates})

\* The next identity template of the larger cell is stored: its
\* insert_template commits a write transaction.
EarlierTemplate ==
    /\ fn = NoFn
    /\ seed_count(env) = 0
    /\ earlier_count(env) < MaxEarlier
    /\ env' = insert_template(env, earlier_template(earlier_count(env) + 1),
                              MinWidth, OriginKind_SAT, None, 0, None).env
    /\ UNCHANGED <<calls, passed_in, returned_ids, last_call, synth_vars,
                   side_vars>>

\* An identity template of the cells cmd_unroll scans is stored, before
\* or after all those of the larger cell.
SeedTemplate ==
    /\ fn = NoFn
    /\ seed_count(env) < MaxSeeds
    /\ earlier_count(env) \in {0, MaxEarlier}
    /\ \E gates \in {g \in ListsUpTo(UnrollAlphabet(MinWidth),
                                     MaxUnrollGates) :
                         ECA57Circuit_is_identity(g, MinWidth)} :
           env' = insert_template(env, gates, MinWidth, OriginKind_SAT, None,
                                  0, None).env
    /\ UNCHANGED <<calls, passed_in, returned_ids, last_call, synth_vars,
                   side_vars>>

\* cmd_unroll between two calls of unroll_and_insert.
NoUnroll ==
    [source |-> None, variants |-> <<>>, inserted |-> 0, duplicates |-> 0,
     rets |-> <<>>]

\* cmd_unroll up to its for loop: iter_by_dims begins its read transaction.
CmdUnrollScan ==
    /\ fn = NoFn
    /\ \E gc \in 0..MaxUnrollGates :
           fn' = [op |-> "cmd_unroll", pc |-> "for", width |-> MinWidth,
                  gc |-> gc, txn |-> env, position |-> 0, visited |-> <<>>,
                  total_inserted |-> 0, unroll |-> NoUnroll]
    /\ UNCHANGED <<store_vars, synth_vars, racer>>

\* The head of the for loop: the cursor yields its next record, the gates
\* are decoded and unroll_and_insert is called for the seed.
CmdUnrollSeed ==
    /\ fn.op = "cmd_unroll"
    /\ fn.pc = "for"
    /\ \E en \in cursor_entries(cursor_view(fn.txn, env), fn.width, fn.gc,
                                 fn.position) :
       \E data \in {get_template(cursor_view(fn.txn, env), BASIS_ECA57,
                                  fn.width, fn.gc, en[2])[1]} :
       \E record \in {TemplateRecord_from_bytes(data)} :
           /\ \A other \in cursor_entries(cursor_view(fn.txn, env), fn.width,
                                           fn.gc, fn.position) :
                  ~dims_key_before(other[1], en[1])
           /\ fn' = [fn EXCEPT
                         !.pc = "unroll",
                         !.position = en[1],
                         !.visited = Append(fn.visited, en[1]),
                         !.unroll = [NoUnroll EXCEPT
                             !.source = Some(record),
                             !.variants = unroll_template(
                                 decode_gates_eca57(record.gates_encoded),
                                 fn.width, cmd_unroll_config)]]
    /\ UNCHANGED <<store_vars, synth_vars, racer>>

\* One pass of the for loop of unroll_and_insert: insert_template of the
\* next variant of the seed commits a write transaction.
CmdUnrollInsert ==
    /\ fn.op = "cmd_unroll"
    /\ fn.pc = "unroll"
    /\ Len(fn.unroll.rets) < Len(fn.unroll.variants)
    /\ \E st \in {unroll_insert_step(
                      [env |-> env, inserted |-> fn.unroll.inserted,
                       duplicates |-> fn.unroll.duplicates,
                       rets |-> fn.unroll.rets],
                      unroll_insert_variant(env, fn.unroll.source[1],
                          fn.unroll.variants[Len(fn.unroll.rets) + 1],
                          fn.width))} :
           /\ env' = st.env
           /\ fn' = [fn EXCEPT !.unroll.inserted = st.inserted,
                               !.unroll.duplicates = st.duplicates,
                               !.unroll.rets = st.rets]
    /\ UNCHANGED <<calls, passed_in, returned_ids, last_call, synth_vars,
                   racer>>

\* unroll_and_insert returns and cmd_unroll adds up the counters.
CmdUnrollSeedDone ==
    /\ fn.op = "cmd_unroll"
    /\ fn.pc = "unroll"
    /\ Len(fn.unroll.rets) = Len(fn.unroll.variants)
    /\ fn' = [fn EXCEPT !.pc = "for",
                        !.total_inserted = fn.total_inserted
                                               + fn.unroll.inserted,
                        !.unroll = NoUnroll]
    /\ UNCHANGED <<store_vars, synth_vars, racer>>

\* The cursor is at the end of the cell: the for loop and the read
\* transaction end.
CmdUnrollEnd ==
    /\ fn.op = "cmd_unroll"
    /\ fn.pc = "for"
    /\ cursor_entries(cursor_view(fn.txn, env), fn.width, fn.gc,
                      fn.position) = {}
    /\ fn' = [fn EXCEPT !.pc = "done"]
    /\ UNCHANGED <<store_vars, synth_vars, racer>>

CliNext ==
    \/ EarlierTemplate
    \/ SeedTemplate
    \/ CmdUnrollScan
    \/ CmdUnrollSeed
    \/ CmdUnrollInsert
    \/ CmdUnrollSeedDone
    \/ CmdUnrollEnd

CliSpec == Init /\ [][CliNext]_vars

(***************************************************************************)
(* sat/solver.py: one call of Solver._solve_external. fn holds the queue   *)
(* between the producer and the consumer thread, the buffer of p.stdin,    *)
(* the two pipes of the solver process, the position of the backend and of *)
(* the main thread. p.stdin is a buffered writer: a write that fits into   *)
(* the free part of its buffer is copied there and returns; another write  *)
(* first writes the buffer into the pipe and then, if it is longer than    *)
(* the buffer, writes its bytes into the pipe itself, and else copies them *)
(* into the buffer. A pipe is the sequence of its buffers, each the pair   *)
(* of the offset and the number of the bytes it holds. The formula has one *)
(* variable and its clauses are [1]. The backend prints banner strings     *)
(* before it reads its input, reads stdin to its end, prints its result    *)
(* and exits.                                                              *)
(***************************************************************************)

\* The number of clauses of one string (step).
step == 20000

\* The strings the producer puts into the queue: the header and one string
\* per slice of step clauses, named by the bounds of the slice.
dimacs_items(nv, cls_num) ==
    << <<"p cnf", nv, cls_num>> >>
    \o [k \in 1..((cls_num + step - 1) \div step) |->
           <<(k - 1) * step,
             IF k * step < cls_num THEN k * step ELSE cls_num>>]

\* len(str(n)) of a natural number.
RECURSIVE str_len(_)
str_len(n) == IF n < 10 THEN 1 ELSE 1 + str_len(n \div 10)

\* len(item.encode()): of the header "p cnf <nv> <cls_num>\n", and of the
\* string of a slice, "1 0\n" for every clause.
encoded_len(item) ==
    IF Len(item) = 3
    THEN 6 + str_len(item[2]) + 1 + str_len(item[3]) + 1
    ELSE ClauseBytes * (item[2] - item[1])

\* The smaller of two numbers.
Min(a, b) == IF a < b THEN a ELSE b

\* The number of bytes a pipe holds.
RECURSIVE pipe_bytes(_)
pipe_bytes(pipe) ==
    IF pipe = <<>> THEN 0 ELSE Head(pipe)[2] + pipe_bytes(Tail(pipe))

\* The start of a write of total bytes into a pipe: when the pipe is not
\* empty, the bytes of total beyond whole pages go into the last buffer if
\* it has room for them behind its bytes.
pipe_merge(pipe, total) ==
    IF /\ total % PageSize > 0
       /\ pipe # <<>>
       /\ pipe[Len(pipe)][1] + pipe[Len(pipe)][2] + (total % PageSize)
              <= PageSize
    THEN [pipe |-> [pipe EXCEPT ![Len(pipe)][2] = @ + (total % PageSize)],
          left |-> total - (total % PageSize)]
    ELSE [pipe |-> pipe, left |-> total]

\* A write goes on: every free buffer of the pipe takes a page of the
\* bytes that are left, the last one what remains.
pipe_fill(pipe, left) ==
    LET pages == Min(PipeSlots - Len(pipe),
                     (left + PageSize - 1) \div PageSize)
    IN  [pipe |-> pipe \o [i \in 1..pages |->
                              <<0, Min(PageSize,
                                       left - ((i - 1) * PageSize))>>],
         left |-> IF left > pages * PageSize
                  THEN left - (pages * PageSize) ELSE 0]

\* One run of a write of the bytes that are left, up to its end or to the
\* full pipe; fresh when the write has just been called.
pipe_write(pipe, left, fresh) ==
    IF fresh
    THEN pipe_fill(pipe_merge(pipe, left).pipe, pipe_merge(pipe, left).left)
    ELSE pipe_fill(pipe, left)

\* A read of at most size bytes takes them from the first buffers of the
\* pipe; a buffer left empty is released.
RECURSIVE pipe_read(_, _)
pipe_read(pipe, size) ==
    IF size = 0 \/ pipe = <<>> THEN pipe
    ELSE IF Head(pipe)[2] <= size
    THEN pipe_read(Tail(pipe), size - Head(pipe)[2])
    ELSE << <<Head(pipe)[1] + size, Head(pipe)[2] - size>> >> \o Tail(pipe)

\* new_buffersize of the readall behind p.stdout.read().
new_buffersize(currentsize) ==
    LET addend == IF currentsize > 65536 THEN currentsize \div 8
                  ELSE 256 + currentsize
    IN  currentsize + (IF addend < SMALLCHUNK THEN SMALLCHUNK ELSE addend)

\* The numbers of clauses of the last slice of a formula: one clause, as
\* many as fill the buffer of p.stdin, and a whole slice.
LastSlices == {1, BufferSize \div ClauseBytes, step}

\* Popen and the start of the two threads.
SolveExternalCall ==
    /\ fn = NoFn
    /\ \E chunks \in 0..MaxChunks, last \in LastSlices,
          banner \in 0..MaxBanner :
       \E banner_bytes \in IF banner = 0 THEN {0} ELSE BannerSizes :
           fn' = [op |-> "solve_external",
                  items |-> dimacs_items(1, IF chunks = 0 THEN 0
                                            ELSE (chunks - 1) * step + last),
                  put |-> 0, q |-> <<>>,
                  consumer |-> "get", item |-> None,
                  buffer |-> 0, writing |-> 0, fresh |-> FALSE,
                  stdin |-> <<>>, stdin_closed |-> FALSE, written |-> <<>>,
                  backend |-> IF banner = 0 THEN "read" ELSE "banner",
                  banner |-> banner, banner_bytes |-> banner_bytes,
                  printing |-> banner_bytes, print_fresh |-> banner > 0,
                  received |-> 0,
                  stdout |-> <<>>, main |-> "join_t1", out |-> 0,
                  bufsize |-> SMALLCHUNK]
    /\ LibUnchanged

\* producer: the next out_q.put, the last one of None.
Producer ==
    /\ fn.op = "solve_external"
    /\ fn.put <= Len(fn.items)
    /\ fn' = [fn EXCEPT !.put = fn.put + 1,
                        !.q = Append(fn.q, IF fn.put < Len(fn.items)
                                           THEN Some(fn.items[fn.put + 1])
                                           ELSE None)]
    /\ LibUnchanged

\* consumer: in_q.get(); on None the loop is left for p.stdin.close().
ConsumerGet ==
    /\ fn.op = "solve_external"
    /\ fn.consumer = "get"
    /\ fn.q # <<>>
    /\ fn' = IF Head(fn.q) = None
             THEN [fn EXCEPT !.q = Tail(fn.q), !.consumer = "close"]
             ELSE [fn EXCEPT !.q = Tail(fn.q), !.consumer = "write",
                             !.item = Head(fn.q)]
    /\ LibUnchanged

\* consumer: p.stdin.write(item) is called. Bytes that fit into the free
\* part of the buffer are copied there and the call returns; else the
\* buffer, if it holds bytes, is written into the pipe (flush), and
\* otherwise the bytes of the item are (raw).
ConsumerWrite ==
    /\ fn.op = "solve_external"
    /\ fn.consumer = "write"
    /\ \E n \in {encoded_len(fn.item[1])} :
          fn' = IF n <= BufferSize - fn.buffer
                THEN [fn EXCEPT !.buffer = fn.buffer + n,
                                !.written = Append(fn.written, fn.item[1]),
                                !.item = None, !.consumer = "get"]
                ELSE IF fn.buffer > 0
                THEN [fn EXCEPT !.consumer = "flush",
                                !.writing = fn.buffer, !.fresh = TRUE]
                ELSE [fn EXCEPT !.consumer = "raw",
                                !.writing = n, !.fresh = TRUE]
    /\ LibUnchanged

\* consumer: the state when the write into the pipe has come to its end.
\* After the flush within p.stdin.write an item longer than the buffer is
\* written into the pipe and a shorter one copied into the buffer, which
\* ends the call; the write of the item ends it too; after the flush
\* within p.stdin.close() the pipe is still open, its close is the next
\* step of the consumer.
consumer_written(f) ==
    IF f.consumer = "flush"
    THEN IF encoded_len(f.item[1]) > BufferSize
         THEN [f EXCEPT !.buffer = 0, !.consumer = "raw",
                        !.writing = encoded_len(f.item[1]), !.fresh = TRUE]
         ELSE [f EXCEPT !.buffer = encoded_len(f.item[1]),
                        !.written = Append(f.written, f.item[1]),
                        !.item = None, !.consumer = "get"]
    ELSE IF f.consumer = "raw"
    THEN [f EXCEPT !.written = Append(f.written, f.item[1]),
                   !.item = None, !.consumer = "get"]
    ELSE [f EXCEPT !.buffer = 0, !.consumer = "close_fd"]

\* consumer: the write into the pipe within p.stdin.write(item) or
\* p.stdin.close() runs: when it is called, and later whenever the pipe
\* has a free buffer, up to its end or to the full pipe.
ConsumerFlush ==
    /\ fn.op = "solve_external"
    /\ fn.consumer \in {"flush", "raw", "closing"}
    /\ fn.fresh \/ Len(fn.stdin) < PipeSlots
    /\ \E w \in {pipe_write(fn.stdin, fn.writing, fn.fresh)} :
          fn' = IF w.left > 0
                THEN [fn EXCEPT !.stdin = w.pipe, !.writing = w.left,
                                !.fresh = FALSE]
                ELSE consumer_written([fn EXCEPT !.stdin = w.pipe,
                                                 !.writing = 0,
                                                 !.fresh = FALSE])
    /\ LibUnchanged

\* consumer: p.stdin.close() is called: the bytes of the buffer are
\* written into the pipe first; with an empty buffer, and after that
\* write, the pipe is closed and the thread ends.
ConsumerClose ==
    /\ fn.op = "solve_external"
    /\ fn.consumer \in {"close", "close_fd"}
    /\ fn' = IF fn.consumer = "close" /\ fn.buffer > 0
             THEN [fn EXCEPT !.consumer = "closing",
                             !.writing = fn.buffer, !.fresh = TRUE]
             ELSE [fn EXCEPT !.consumer = "done", !.stdin_closed = TRUE]
    /\ LibUnchanged

\* The backend writes a string of its banner, or its result, to stdout:
\* the write runs when it is called and whenever the pipe has a free
\* buffer.
BackendPrint ==
    /\ fn.op = "solve_external"
    /\ fn.backend \in {"banner", "result"}
    /\ fn.print_fresh \/ Len(fn.stdout) < PipeSlots
    /\ \E w \in {pipe_write(fn.stdout, fn.printing, fn.print_fresh)} :
          fn' = IF w.left > 0
                THEN [fn EXCEPT !.stdout = w.pipe, !.printing = w.left,
                                !.print_fresh = FALSE]
                ELSE IF fn.backend = "result"
                THEN [fn EXCEPT !.stdout = w.pipe, !.printing = 0,
                                !.print_fresh = FALSE,
                                !.backend = "exit"]
                ELSE [fn EXCEPT !.stdout = w.pipe,
                                !.banner = fn.banner - 1,
                                !.printing = IF fn.banner = 1 THEN 0
                                             ELSE fn.banner_bytes,
                                !.print_fresh = fn.banner > 1,
                                !.backend = IF fn.banner = 1 THEN "read"
                                            ELSE "banner"]
    /\ LibUnchanged

\* The backend reads from stdin what the pipe holds, at most the size of
\* its read, or meets the end of its input.
BackendRead ==
    /\ fn.op = "solve_external"
    /\ fn.backend = "read"
    /\ \/ /\ fn.stdin # <<>>
          /\ \E size \in ReadSizes :
                 fn' = [fn EXCEPT
                           !.stdin = pipe_read(fn.stdin, size),
                           !.received = fn.received
                               + Min(pipe_bytes(fn.stdin), size)]
       \/ /\ fn.stdin = <<>>
          /\ fn.stdin_closed
          /\ fn' = [fn EXCEPT !.backend = "result",
                              !.printing = ResultBytes,
                              !.print_fresh = TRUE]
    /\ LibUnchanged

\* The backend exits after its result is written, which closes its end of
\* the stdout pipe.
BackendExit ==
    /\ fn.op = "solve_external"
    /\ fn.backend = "exit"
    /\ fn' = [fn EXCEPT !.backend = "exited"]
    /\ LibUnchanged

\* The main thread: t1.join(), then t2.join().
MainJoin ==
    /\ fn.op = "solve_external"
    /\ \/ /\ fn.main = "join_t1"
          /\ fn.put = Len(fn.items) + 1
          /\ fn' = [fn EXCEPT !.main = "join_t2"]
       \/ /\ fn.main = "join_t2"
          /\ fn.consumer = "done"
          /\ fn' = [fn EXCEPT !.main = "read"]
    /\ LibUnchanged

\* The main thread in p.stdout.read(): one read of the readall loop, which
\* asks for the free part of its buffer (grown first when it is full) and
\* takes what the pipe holds of it; the read at the end of the output,
\* when the backend has exited, ends the call.
MainRead ==
    /\ fn.op = "solve_external"
    /\ fn.main = "read"
    /\ fn.stdout # <<>> \/ fn.backend = "exited"
    /\ \E size \in {IF fn.out >= fn.bufsize THEN new_buffersize(fn.out)
                    ELSE fn.bufsize} :
          fn' = IF fn.stdout # <<>>
                THEN [fn EXCEPT
                         !.bufsize = size,
                         !.stdout = pipe_read(fn.stdout, size - fn.out),
                         !.out = fn.out + Min(pipe_bytes(fn.stdout),
                                              size - fn.out)]
                ELSE [fn EXCEPT !.bufsize = size, !.main = "returned"]
    /\ LibUnchanged

SolverNext ==
    \/ SolveExternalCall
    \/ Producer
    \/ ConsumerGet
    \/ ConsumerWrite
    \/ ConsumerFlush
    \/ ConsumerClose
    \/ BackendPrint
    \/ BackendRead
    \/ BackendExit
    \/ MainJoin
    \/ MainRead

\* The threads and the solver process all run when they can.
SolverSpec ==
    /\ Init
    /\ [][SolverNext]_vars
    /\ WF_vars(Producer)
    /\ WF_vars(ConsumerGet)
    /\ WF_vars(ConsumerWrite)
    /\ WF_vars(ConsumerFlush)
    /\ WF_vars(ConsumerClose)
    /\ WF_vars(BackendPrint)
    /\ WF_vars(BackendRead)
    /\ WF_vars(BackendExit)
    /\ WF_vars(MainJoin)
    /\ WF_vars(MainRead)

(***************************************************************************)
(* The template store: claims C1, C2, C8, C9, C10, under Spec.             *)
(***************************************************************************)
\* The <<width, gate_count, canonical hash>> of the primary keys.
PrimaryKeys(e) ==
    {<<k[2], k[3], k[4]>> : k \in DOMAIN e.templates_by_hash}

EmptyPassed == {p \in passed_in : p[2] = 0}

\* C1, as stated: after any sequence of insert_template calls the number of
\* records in templates_by_hash equals the number of distinct canonical
\* hashes among the gate lists passed in.
C1_RecordsPerHash ==
    Cardinality(DOMAIN env.templates_by_hash)
        = Cardinality({p[3] : p \in passed_in})

\* C1, amended: templates_by_hash holds one record per distinct
\* (width, gate_count, canonical hash) passed in, that is one per distinct
\* canonical hash of the non-empty lists and one per width at which the
\* empty list was passed in (its hash does not depend on the width).
C1_RecordsPerKey ==
    /\ PrimaryKeys(env) = passed_in
    /\ Cardinality(DOMAIN env.templates_by_hash)
           = Cardinality({p[3] : p \in passed_in \ EmptyPassed})
             + Cardinality({p[1] : p \in EmptyPassed})

\* The empty list was passed in at two widths and the last insert_template
\* repeated a key.
C1_Witness ==
    /\ Cardinality(EmptyPassed) = 2
    /\ last_call.op = "insert_template"
    /\ last_call.ret = None

\* C2: the k-th successful insert_template returns template_id k (ids
\* increase by one, without gaps or reuse), and meta.template_count is the
\* number of primary records.
C2_IdsSequential ==
    /\ returned_ids = [i \in 1..Len(returned_ids) |-> i]
    /\ env.meta.template_count = Len(returned_ids)
    /\ env.meta.template_count = Cardinality(DOMAIN env.templates_by_hash)
    /\ {r.template_id : r \in StoredRecords(env)}
           = 1..env.meta.template_count

\* Three ids were returned, the last ones by an unroll_and_insert that also
\* met duplicates.
C2_Witness ==
    /\ returned_ids = <<1, 2, 3>>
    /\ last_call.op = "unroll_and_insert"
    /\ last_call.inserted >= 1
    /\ last_call.duplicates >= 1

\* The template_ids of the records whose family_hash is f.
FamilyIds(e, f) ==
    {r.template_id : r \in {x \in StoredRecords(e) : x.family_hash = f}}

SeqRange(q) == {q[i] : i \in 1..Len(q)}

\* The last call unrolled a record that was alone in its family.
UnrolledNewSeed ==
    /\ last_call.op = "unroll_and_insert"
    /\ get_family_members(last_call.before, BASIS_ECA57,
                          last_call.source[1].family_hash)
           = <<last_call.source[1].template_id>>

\* C8: the family list under (basis, f) holds exactly the template_ids of
\* the records whose family_hash is f, each once; after unrolling a seed
\* that was alone in its family the list has length inserted + 1 and
\* contains the seed's id.
C8_FamilyLists ==
    /\ \A r \in StoredRecords(env) :
           <<r.basis_id, r.family_hash>> \in DOMAIN env.template_families
    /\ \A k \in DOMAIN env.template_families :
           /\ SeqRange(get_family_members(env, k[1], k[2]))
                  = FamilyIds(env, k[2])
           /\ Len(get_family_members(env, k[1], k[2]))
                  = Cardinality(FamilyIds(env, k[2]))
    /\ UnrolledNewSeed =>
           /\ Len(get_family_members(env, BASIS_ECA57,
                                     last_call.source[1].family_hash))
                  = last_call.inserted + 1
           /\ last_call.source[1].template_id
                  \in SeqRange(get_family_members(env, BASIS_ECA57,
                                    last_call.source[1].family_hash))

\* A seed alone in its family was unrolled into at least one new record,
\* next to a record of another family.
C8_Witness ==
    /\ UnrolledNewSeed
    /\ last_call.inserted >= 1
    /\ Cardinality(DOMAIN env.template_families) >= 2

\* The last call was insert_template with a key the store already held.
RepeatedKey ==
    /\ last_call.op = "insert_template"
    /\ <<BASIS_ECA57, last_call.width, Len(last_call.gates),
         canonical_hash_256(last_call.gates, last_call.width)>>
           \in DOMAIN last_call.before.templates_by_hash

\* C9: insert_template of a gate list whose key is already present returns
\* None and leaves the store as it was: template_count, the primary
\* records, the dims index and the family lists.
C9_DuplicateLeavesStore ==
    RepeatedKey => /\ last_call.ret = None
                   /\ env = last_call.before

\* A key was repeated with a family_hash other than the stored record's.
C9_Witness ==
    /\ RepeatedKey
    /\ last_call.family_hash # None
    /\ \E r \in StoredRecords(env) :
           /\ r.canonical_hash
                  = canonical_hash_256(last_call.gates, last_call.width)
           /\ r.width = last_call.width
           /\ r.family_hash # last_call.family_hash[1]

RecordsOfDims(e, width, gate_count) ==
    {r \in StoredRecords(e) : r.width = width /\ r.gate_count = gate_count}

\* C10: every allocated template_id is in exactly one primary record and
\* one templates_by_dims entry, keyed by the record's own dimensions and
\* holding its canonical hash; iter_by_dims(width, gc) yields exactly the
\* records of those dimensions, each once.
C10_DimsIndex ==
    /\ \A id \in 1..env.meta.template_count :
           /\ Cardinality({k \in DOMAIN env.templates_by_hash :
                  TemplateRecord_from_bytes(env.templates_by_hash[k]).template_id
                      = id}) = 1
           /\ Cardinality({k \in DOMAIN env.templates_by_dims : k[4] = id}) = 1
    /\ \A r \in StoredRecords(env) :
           /\ <<r.basis_id, r.width, r.gate_count, r.template_id>>
                  \in DOMAIN env.templates_by_dims
           /\ env.templates_by_dims[<<r.basis_id, r.width, r.gate_count,
                                      r.template_id>>] = r.canonical_hash
    /\ \A width \in Widths, gate_count \in 0..LongSeedGates :
           iter_by_dims(env, width, gate_count)
               = [r \in RecordsOfDims(env, width, gate_count) |-> 1]

\* Two records share their dimensions and a third has others.
C10_Witness ==
    /\ \E width \in Widths, gate_count \in 0..MaxGates :
           Cardinality(RecordsOfDims(env, width, gate_count)) >= 2
    /\ Cardinality(StoredRecords(env)) >= 3

(***************************************************************************)
(* The synthesizer and the driver: claims C3 to C5, under SynthSpec.       *)
(***************************************************************************)
\* The sequences of gate_count valid gates over width wires whose
\* composition is the identity.
identity_circuits(width, gate_count) ==
    {c \in [1..gate_count -> all_eca57_gates(width)] :
        ECA57Circuit_is_identity(c, width)}

\* C3: ECA57DimGroupSynthesizer.synthesize returns for its cell, and the
\* DimGroup it returns contains every sequence of gate_count valid gates
\* over width wires whose composition is the identity.
C3_EveryIdentityFound ==
    run.op = "dimgroup_synthesize" =>
        /\ run.raised = None
        /\ identity_circuits(run.width, run.gate_count)
               \subseteq SeqRange(run.dg)

\* C22: for every cell the loop of ECA57DimGroupSynthesizer.synthesize
\* reaches UNSAT and returns, after iterations each of which added gate
\* lists the group did not hold yet.
C22_LoopReachesUnsat ==
    run.op = "dimgroup_synthesize" =>
        /\ run.raised = None
        /\ Cardinality(SeqRange(run.dg)) = Len(run.dg)

\* C4: a circuit solve decodes from a satisfying assignment of the identity
\* encoding has gate_count gates over the wires of the width, each with
\* pairwise distinct target, ctrl1 and ctrl2, and its composition
\* (target ^= ctrl1 OR NOT ctrl2 per gate) is the identity on all 2^width
\* inputs.
C4_SolveIdentity ==
    (run.op = "solve" /\ run.ret # None) =>
        /\ Len(run.ret[1]) = run.gate_count
        /\ \A g \in DOMAIN run.ret[1] :
               /\ ECA57Gate_valid(run.ret[1][g])
               /\ \A role \in 1..3 : run.ret[1][g][role] \in Wires(run.width)
        /\ ECA57Circuit_is_identity(run.ret[1], run.width)

\* solve returned a circuit of two gates from a formula that holds an
\* exclusion clause.
C4_Witness ==
    /\ run.op = "solve"
    /\ run.ret # None
    /\ run.gate_count = 2
    /\ synth[1].clauses # {}

\* The circuits the solves of a list of calls returned, in call order.
SolvedCircuits(events) ==
    SelectSeq(events, LAMBDA ev : ev.call = "solve" /\ ev.ret # None)

\* C5: in the per-cell enumeration loop no solve returns a circuit whose
\* canonical form equals that of a circuit collected before in that cell,
\* and after a circuit has been excluded from a synthesizer no later solve
\* on that synthesizer returns the same gate list.
C5_NoReEmission ==
    /\ run.op = "dimgroup_synthesize" =>
           \A i, j \in DOMAIN SolvedCircuits(run.events) :
               i < j =>
                   canonical_hash_256(SolvedCircuits(run.events)[i].ret[1],
                                      run.width)
                       # canonical_hash_256(
                             SolvedCircuits(run.events)[j].ret[1], run.width)
    /\ (run.op = "solve" /\ run.ret # None) =>
           exclusion_list(run.ret[1], run.width) \notin synth[1].clauses

\* solve returned a circuit from a formula from which two circuits had
\* been excluded.
C5_Witness ==
    /\ run.op = "solve"
    /\ run.ret # None
    /\ Cardinality(synth[1].clauses) >= 2

(***************************************************************************)
(* Claims about the library functions (specification LibSpec).             *)
(***************************************************************************)

\* The lists unroll_template starts its commuting-swap search from.
UnrollSearchRoots ==
    LET base == all_variants(base_variants(fn.gates, fn.config), fn.width,
                             fn.config)
    IN  {base[i][1] : i \in DOMAIN base}

\* C11: every variant unroll_template yields composes to the identity
\* permutation if and only if the seed gate list does.
C11_VariantsKeepIdentity ==
    fn.op = "unroll_template" =>
        \A k \in DOMAIN fn.result :
            ECA57Circuit_is_identity(fn.result[k][1], fn.width)
                <=> ECA57Circuit_is_identity(fn.gates, fn.width)

\* An identity seed of several gates unrolled with every switch on, one of
\* whose variants was reached by swapping commuting gates only.
C11_Witness ==
    /\ fn.op = "unroll_template"
    /\ Len(fn.gates) > 1
    /\ ECA57Circuit_is_identity(fn.gates, fn.width)
    /\ fn.config.do_mirror /\ fn.config.do_permute
    /\ fn.config.do_rotate /\ fn.config.do_swap_dfs
    /\ \E k \in DOMAIN fn.result : fn.result[k][1] \notin UnrollSearchRoots

\* C12: canonicalize returns the same canonical gates and the same hash for
\* a gate list and for the list under any permutation of the wires.
C12_CanonicalUnderPermutation ==
    fn.op = "canonicalize" => fn.permuted_result = fn.result

\* A list of two gates that is not in canonical form, canonicalized under a
\* permutation that changes it.
C12_Witness ==
    /\ fn.op = "canonicalize"
    /\ Len(fn.gates) > 1
    /\ fn.result.gates # fn.gates
    /\ fn.permuted # fn.gates
    /\ fn.permuted_result.gates # fn.permuted

\* Applying g1 then g2 gives the same permutation of the input states as
\* applying g2 then g1.
SamePermutation(g1, g2, width) ==
    \A state \in [0..(width - 1) -> {0, 1}] :
        ECA57Circuit_apply(<<g1, g2>>, state)
            = ECA57Circuit_apply(<<g2, g1>>, state)

\* C14: ECA57Basis.commutes(g1, g2) is true if and only if applying g1 then
\* g2 gives the same permutation as applying g2 then g1.
C14_CommutesIffSamePermutation ==
    fn.op = "commutes" =>
        (fn.result <=> SamePermutation(fn.g1, fn.g2, fn.width))

\* The store that was opened records a schema_version or a
\* canonicalization_version other than the constants of the running code.
VersionMismatch ==
    \/ fn.disk.meta.schema_version # SCHEMA_VERSION
    \/ fn.disk.meta.canonicalization_version # CANONICALIZATION_VERSION

\* C15: opening an existing store whose meta records other versions than the
\* running code's is refused: no environment is handed out and no template
\* is read from or written to the store.
C15_MismatchRefused ==
    fn.op = "TemplateDBEnv" /\ VersionMismatch =>
        /\ fn.opened.raised # None
        /\ fn.inserted = None
        /\ fn.found = None
        /\ fn.after = fn.disk

\* The assignments of the literals' variables that extend, by some value of
\* the auxiliary variables, to an assignment satisfying every clause
\* CNF.xor added.
XorModels ==
    {[k \in 1..Len(fn.literals) |-> assignment[k]] :
        assignment \in
            {a \in [1..fn.variables -> BOOLEAN] :
                \A clause \in fn.clauses :
                    \E k \in DOMAIN clause : literal_value(a, clause[k])}}

\* The number of the literals of the list that are true under a.
TrueLiterals(a) ==
    Cardinality({k \in DOMAIN fn.literals : literal_value(a, fn.literals[k])})

\* C16: the clauses of CNF.xor(L) are satisfied by exactly the
\* assignments of L under which an odd number of the literals are true.
C16_OddParity ==
    fn.op = "xor" =>
        XorModels = {a \in [1..Len(fn.literals) -> BOOLEAN] :
                        TrueLiterals(a) % 2 = 1}

(***************************************************************************)
(* Further claims about the template store (specification Spec).           *)
(***************************************************************************)

\* C13: in every reachable store each template record's decoded gates,
\* canonicalized at the record's width, hash to the record's canonical_hash,
\* which is also the hash in the key the record is stored under.
C13_StoredHashIsCanonical ==
    \A k \in DOMAIN env.templates_by_hash :
        LET record == TemplateRecord_from_bytes(env.templates_by_hash[k])
        IN  /\ canonical_hash_256(decode_gates_eca57(record.gates_encoded),
                                  record.width) = record.canonical_hash
            /\ k[4] = record.canonical_hash

\* insert_template has stored a record for a list of several gates that was
\* not in canonical form.
C13_Witness ==
    /\ last_call.op = "insert_template"
    /\ last_call.ret # None
    /\ Len(last_call.gates) > 1
    /\ decode_gates_eca57(last_call.ret[1].gates_encoded) # last_call.gates
    /\ last_call.ret[1] \in StoredRecords(env)

(***************************************************************************)
(* Claims about the witness store (specification WitnessSpec).             *)
(***************************************************************************)

\* The gates of the template of the last build_witnesses_from_template.
BuiltGates == decode_gates_eca57(fn.template.gates_encoded)

\* The witness stored under the canonical hash of the first
\* gate_count // 2 + 1 gates of the template, or None.
PrefixWitness ==
    get_witness(env, BASIS_ECA57, fn.template.width,
        compute_witness_length(fn.template.gate_count),
        canonical_hash_256(
            first_gates(BuiltGates,
                        compute_witness_length(fn.template.gate_count)),
            fn.template.width))

\* C17: after build_witnesses_from_template(T) for a template T of two or
\* more gates, whether it inserted or found the witness present, a witness
\* of length gate_count // 2 + 1 is stored under the canonical hash of T's
\* first gate_count // 2 + 1 gates, and lookup_by_token of T's width and the
\* token of the first two gates of T returns a list with that witness's id.
C17_WitnessStoredAndIndexed ==
    fn.op = "build_witnesses_from_template" /\ fn.template.gate_count >= 2 =>
        /\ PrefixWitness # None
        /\ WitnessRecord_from_bytes(PrefixWitness[1]).witness_len
               = compute_witness_length(fn.template.gate_count)
        /\ \E k \in DOMAIN lookup_by_token(env, fn.template.width,
                      compute_kgram_tokens(BuiltGates, 2,
                                           fn.template.width)[1]) :
               lookup_by_token(env, fn.template.width,
                   compute_kgram_tokens(BuiltGates, 2,
                                        fn.template.width)[1])[k]
                   = WitnessRecord_from_bytes(PrefixWitness[1]).witness_id

\* A witness was built from a template of four gates and found already
\* present, stored for another template that begins with the same gates.
C17_Witness ==
    /\ fn.op = "build_witnesses_from_template"
    /\ fn.template.gate_count >= 4
    /\ fn.ret = None
    /\ PrefixWitness # None
    /\ WitnessRecord_from_bytes(PrefixWitness[1]).source_template_id
           # fn.template.template_id

\* C29: after any sequence of insert_witness calls no witness_prefilter
\* bucket lists the same witness_id more than once, also for witnesses in
\* which one window of gates occurs at several positions.
C29_BucketsListOnce ==
    \A key \in DOMAIN env.witness_prefilter :
        Cardinality(SeqRange(env.witness_prefilter[key]))
            = Len(env.witness_prefilter[key])

(***************************************************************************)
(* Claims about the solver race (specification RacerSpec).                 *)
(***************************************************************************)

\* The results, exceptions left out, in the order they were put on the
\* result queue.
DefinitivePuts ==
    SelectSeq(racer.puts, LAMBDA item : ~item[2].exception)

\* A race of two or more solvers has returned.
RaceReturned == racer.pc = "returned" /\ Len(racer.solver_names) >= 2

\* C18: solve with two or more solver names returns the first result that
\* is not an exception put on the result queue, in every interleaving; when
\* it returns every worker that has not exited has been sent a terminate
\* request; and a result put later never changes the returned answer.
C18_FirstDefinitiveWins ==
    /\ [](RaceReturned =>
             /\ Len(racer.worker) = Len(racer.solver_names)
             /\ \A w \in DOMAIN racer.worker :
                    racer.worker[w] = "exited" \/ w \in racer.terminated
             /\ DefinitivePuts # <<>> =>
                    racer.returned
                        = Some([sat |-> DefinitivePuts[1][2].sat,
                                model |-> DefinitivePuts[1][2].model]))
    /\ [][RaceReturned => racer'.pc = "returned"
                            /\ racer'.returned = racer.returned]_vars

\* A race of three solvers has returned the second result put, the first
\* having been an exception, and the third solver, sent a terminate
\* request, put another answer after the return.
C18_Witness ==
    /\ RaceReturned
    /\ Len(racer.puts) = 3
    /\ racer.finished_count = 2
    /\ racer.puts[1][2].exception
    /\ ~racer.puts[2][2].exception /\ ~racer.puts[3][2].exception
    /\ racer.puts[3][2].sat # racer.puts[2][2].sat
    /\ racer.puts[3][1] \in racer.terminated

\* C19: when every worker of a race of two or more solvers reports an
\* exception, the outcome of the race can be told apart from UNSAT: it is
\* not the answer (False, []) that solve returns for an UNSAT result.
C19_AllFailedIsNotUnsat ==
    /\ RaceReturned
    /\ racer.finished_count = Len(racer.solver_names)
    /\ DefinitivePuts = <<>>
    => racer.returned # Some([sat |-> FALSE, model |-> <<>>])

(***************************************************************************)
(* A further claim about the driver (specification SynthSpec).             *)
(***************************************************************************)

\* C20: an exception raised while the driver processes one cell does not
\* prevent the remaining cells of its loops from being processed.
C20_FailureLeavesOtherCells ==
    driver.status = "raised" =>
        \A k \in DOMAIN driver.cells :
            driver.cells[k] # driver.cell[1] =>
                \E j \in DOMAIN driver.processed :
                    driver.processed[j] = driver.cells[k]

(***************************************************************************)
(* Claims about the origin links and the permuted variants (under Spec).   *)
(***************************************************************************)

\* The records unroll_and_insert wrote in the last call.
UnrollWritten ==
    {last_call.rets[i][1] :
        i \in {k \in DOMAIN last_call.rets : last_call.rets[k] # None}}

\* C28: the origin_template_id of a record written with origin UNROLL is
\* the template_id of a record that was in the store before and is
\* strictly smaller than the record's own template_id; for the records
\* unroll_and_insert writes it is the id of the source record. Records with
\* origin SAT carry no origin_template_id.
C28_OriginLinks ==
    /\ \A r \in StoredRecords(env) :
           /\ r.origin = OriginKind_SAT => r.origin_template_id = None
           /\ r.origin_template_id # None =>
                  /\ r.origin = OriginKind_UNROLL
                  /\ r.origin_template_id[1] < r.template_id
                  /\ \E s \in StoredRecords(env) :
                         s.template_id = r.origin_template_id[1]
    /\ last_call.op = "unroll_and_insert" =>
           \A r \in UnrollWritten :
               /\ r \in StoredRecords(env)
               /\ r.origin = OriginKind_UNROLL
               /\ r.origin_template_id = Some(last_call.source[1].template_id)
               /\ last_call.source[1] \in StoredRecords(last_call.before)

\* unroll_and_insert wrote a record for a source that was itself written
\* by an unroll.
C28_Witness ==
    /\ last_call.op = "unroll_and_insert"
    /\ UnrollWritten # {}
    /\ last_call.source[1].origin = OriginKind_UNROLL

(***************************************************************************)
(* Claims about the unroll flags and gate_swap_dfs (specification LibSpec). *)
(***************************************************************************)

\* The flag is set in the bitfield ops.
HasFlag(ops, flag) == (ops \div flag) % 2 = 1

\* The lists that swaps of adjacent commuting gates reach from the lists
\* of S, those of S included.
RECURSIVE SwapClosure(_)
SwapClosure(S) ==
    LET next == S \cup UNION {{swap_at(h, i) :
                                  i \in SeqRange(adjacent_commuting_pairs(h))} :
                              h \in S}
    IN  IF next = S THEN S ELSE SwapClosure(next)

\* The lists obtained from the seed by applying the transforms among
\* rotate, mirror and permute whose flags are set in ops, and no other.
TransformedSeeds(gates, width, ops, config) ==
    LET rotated == IF HasFlag(ops, UNROLL_ROTATE)
                   THEN {rotate(gates, r) : r \in 1..(Len(gates) - 1)}
                   ELSE {gates}
        mirrored == IF HasFlag(ops, UNROLL_MIRROR)
                    THEN {mirror(g) : g \in rotated} ELSE rotated
        perms == skip_identity(
                     limit_permutations(permutations(0..(width - 1)),
                                        config.max_permutations), width)
    IN  IF HasFlag(ops, UNROLL_PERMUTE)
        THEN {permute_lines(g, perms[k]) :
                  g \in mirrored, k \in DOMAIN perms}
        ELSE mirrored

\* The variant is obtained from the seed by exactly the transforms whose
\* flags are set in ops: with the swap flag by at least one swap of
\* adjacent commuting gates after the other transforms, without it by none.
FlagsAreTransforms(gates, width, variant, ops, config) ==
    \E b \in TransformedSeeds(gates, width, ops, config) :
        IF HasFlag(ops, UNROLL_SWAP)
        THEN /\ adjacent_commuting_pairs(b) # <<>>
             /\ variant \in SwapClosure({b})
        ELSE variant = b

\* C23: for every (variant, ops) pair yielded by unroll_template, the bits
\* set in ops are exactly the transforms among mirror, permute, rotate and
\* swap that were applied to the seed to obtain the variant.
C23_FlagsAreAppliedTransforms ==
    fn.op = "unroll_template" =>
        \A k \in DOMAIN fn.result :
            FlagsAreTransforms(fn.gates, fn.width, fn.result[k][1],
                               fn.result[k][2], fn.config)

\* C24: gate_swap_dfs terminates for every gate list, width and
\* max_nodes >= 0: it stops after yielding max_nodes lists or when the
\* queue is empty, it never yields more than max_nodes lists, and with
\* max_nodes >= 1 the first list it yields is its input.
C24_DfsTerminates ==
    /\ [](fn.op = "gate_swap_dfs" =>
            /\ Len(fn.yielded) <= fn.max_nodes
            /\ Len(fn.yielded) >= 1 => fn.yielded[1] = fn.gates
            /\ fn.pc = "done" =>
                   /\ Len(fn.yielded) = fn.max_nodes \/ fn.queue = <<>>
                   /\ fn.max_nodes >= 1 => Len(fn.yielded) >= 1
                   /\ fn.yielded
                          = gate_swap_dfs(fn.gates, fn.width, fn.max_nodes))
    /\ (fn.op = "gate_swap_dfs") ~> (fn.op = "gate_swap_dfs" /\ fn.pc = "done")

\* gate_swap_dfs stopped at its budget of at least two nodes with lists
\* left in the queue.
C24_Witness ==
    /\ fn.op = "gate_swap_dfs"
    /\ fn.pc = "done"
    /\ fn.max_nodes >= 2
    /\ Len(fn.yielded) = fn.max_nodes
    /\ fn.queue # <<>>

\* The canonical hashes of the lists of S at the width of the call.
DfsHashes(S) == {canonicalize(g, fn.width).hash : g \in S}

\* gate_swap_dfs ended with an empty queue: its budget did not cut the
\* search.
DfsClosed == fn.op = "gate_swap_dfs" /\ fn.pc = "done" /\ fn.queue = <<>>

\* C25 as stated: when the node budget is not exhausted, gate_swap_dfs
\* yields every gate list reachable from the input by swaps of adjacent
\* commuting gates, each exactly once.
C25_YieldsEveryReachableList ==
    DfsClosed =>
        /\ SeqRange(fn.yielded) = SwapClosure({fn.gates})
        /\ Cardinality(SeqRange(fn.yielded)) = Len(fn.yielded)

\* C25, amended: when the node budget is not exhausted, gate_swap_dfs
\* yields exactly one list for every canonical hash of a gate list
\* reachable from the input by swaps of adjacent gates that commutes
\* accepts, and every list it yields is such a reachable list.
C25_YieldsEveryReachableHash ==
    DfsClosed =>
        /\ DfsHashes(SeqRange(fn.yielded)) = DfsHashes(SwapClosure({fn.gates}))
        /\ Cardinality(DfsHashes(SeqRange(fn.yielded))) = Len(fn.yielded)
        /\ SeqRange(fn.yielded) \subseteq SwapClosure({fn.gates})

\* gate_swap_dfs closed the search after yielding three lists, and a
\* reachable list with the canonical hash of a yielded one was not yielded.
C25_Witness ==
    /\ DfsClosed
    /\ Len(fn.yielded) >= 3
    /\ SwapClosure({fn.gates}) # SeqRange(fn.yielded)

\* C30: every variant unroll_template derives by a wire permutation other
\* than the identity has the canonical hash of the variant it was derived
\* from, which unroll_template yields before it, so insert_template finds
\* it stored and unroll_and_insert counts a duplicate: the permutation step
\* adds no record to the store (checked under Spec).
C30_PermutedAreDuplicates ==
    last_call.op = "unroll_and_insert" =>
        \A i \in DOMAIN last_call.variants :
            HasFlag(last_call.variants[i][2], UNROLL_PERMUTE) =>
                /\ last_call.rets[i] = None
                /\ \E j \in 1..(i - 1) :
                       /\ last_call.variants[j][2] + UNROLL_PERMUTE
                              = last_call.variants[i][2]
                       /\ canonicalize(last_call.variants[j][1],
                                       last_call.width).hash
                              = canonicalize(last_call.variants[i][1],
                                             last_call.width).hash

\* unroll_and_insert stored two records for a seed of which unroll_template
\* also yielded permuted variants.
C30_Witness ==
    /\ last_call.op = "unroll_and_insert"
    /\ last_call.inserted >= 2
    /\ \E i \in DOMAIN last_call.variants :
           HasFlag(last_call.variants[i][2], UNROLL_PERMUTE)

(***************************************************************************)
(* Claims about the external solver (specification SolverSpec).            *)
(***************************************************************************)

\* The number of bytes of the strings of items.
RECURSIVE items_len(_)
items_len(items) ==
    IF items = <<>> THEN 0
    ELSE encoded_len(Head(items)) + items_len(Tail(items))

\* C26: the exchange with the backend cannot deadlock with bounded pipes:
\* for any backend that eventually prints its result, every chunk is
\* written to stdin exactly once and in order, the header first, stdin is
\* closed after the last chunk, and solve returns.
C26_ExchangeReturns ==
    /\ [](fn.op = "solve_external" =>
            /\ fn.written = SubSeq(fn.items, 1, Len(fn.written))
            /\ fn.stdin_closed =>
                   /\ fn.written = fn.items
                   /\ fn.received + pipe_bytes(fn.stdin)
                          = items_len(fn.items))
    /\ (fn.op = "solve_external") ~>
           (fn.op = "solve_external" /\ fn.main = "returned")

(***************************************************************************)
(* Claims about the scan of cmd_unroll (specification CliSpec).            *)
(***************************************************************************)

\* The template ids of the cell of the scan in the store e.
CellIds(e) ==
    {en[1] : en \in iter_templates_by_dims(e, BASIS_ECA57, fn.width, fn.gc)}

\* C27: a scan of a cell with iter_by_dims that is interleaved with write
\* transactions into the cell visits exactly the templates that were in
\* the cell when the scan started, each once; the variants inserted during
\* the scan are not visited, every pass of the loop brings the scan one
\* template nearer to its end, and every write transaction within a pass
\* brings unroll_and_insert one variant nearer to its return.
C27_ScanVisitsSnapshot ==
    /\ [](fn.op = "cmd_unroll" =>
            /\ SeqRange(fn.visited) \subseteq CellIds(fn.txn)
            /\ Cardinality(SeqRange(fn.visited)) = Len(fn.visited)
            /\ fn.pc = "done" => SeqRange(fn.visited) = CellIds(fn.txn))
    /\ [][fn.op = "cmd_unroll" /\ fn.pc = "for" =>
             \/ fn'.pc = "done"
             \/ /\ Len(fn'.visited) = Len(fn.visited) + 1
                /\ Len(fn'.visited) <= Cardinality(CellIds(fn.txn))
                /\ fn'.txn = fn.txn]_vars
    /\ [][fn.op = "cmd_unroll" /\ fn.pc = "unroll" =>
             /\ fn'.visited = fn.visited
             /\ fn'.txn = fn.txn
             /\ \/ fn'.pc = "for"
                \/ /\ Len(fn'.unroll.rets) = Len(fn.unroll.rets) + 1
                   /\ Len(fn'.unroll.rets) <= Len(fn.unroll.variants)
                   /\ fn'.unroll.variants = fn.unroll.variants]_vars

\* The scan ended after two seeds, and variants were inserted into its
\* cell while it ran.
C27_Witness ==
    /\ fn.op = "cmd_unroll"
    /\ fn.pc = "done"
    /\ Len(fn.visited) = 2
    /\ CellIds(env) # CellIds(fn.txn)

(***************************************************************************)
(* Claims about merge_databases (specification LibSpec).                   *)
(***************************************************************************)

\* The canonical hashes of the records of a store (none for no store).
HashesOf(store) ==
    IF store = None THEN {}
    ELSE {r.canonical_hash : r \in StoredRecords(store[1])}

\* C21: after merge_databases has folded the job stores into the target,
\* the canonical hashes of the target are those of all job stores and those
\* the target held before, each stored once, template_count is their
\* number, and no merged record has an origin_template_id.
C21_TargetHoldsUnion ==
    fn.op = "merge_databases" /\ ~fn.dry_run /\ fn.job_dbs # <<>> =>
        /\ fn.merged.env # None
        /\ HashesOf(fn.merged.env)
               = HashesOf(fn.output_db)
                     \cup UNION {HashesOf(Some(fn.job_dbs[k])) :
                                    k \in DOMAIN fn.job_dbs}
        /\ get_template_count(fn.merged.env[1])
               = Cardinality(HashesOf(fn.merged.env))
        /\ \A r \in StoredRecords(fn.merged.env[1]) :
               r.canonical_hash \notin HashesOf(fn.output_db) =>
                   r.origin_template_id = None

====
